---- MODULE Spec2Model ----
(***************************************************************************)
(* TokenRouter gateway: the /v1/chat/completions request lifecycle         *)
(* (token_router/endpoints/chat.py), the model registry, the smart router  *)
(* and the streaming side of the five provider adapters.                   *)
(*                                                                         *)
(* Encodings                                                               *)
(*   model id    a sequence of its "/"-separated segments,                 *)
(*               "openai/gpt-4o" is <<"openai", "gpt-4o">>                 *)
(*   money       integer units of 1e-8 USD; a rate is cents per million    *)
(*               tokens, so tokens * rate is the cost in these units       *)
(*   confidence  integer percent                                           *)
(*   key         [provider, source]: whose credential it is and whether it *)
(*               came from a request header or from the server settings    *)
(***************************************************************************)
EXTENDS Integers, Sequences, FiniteSets, TLC

\* ------------------------------------------------------------------ bounds
MaxRequests == 1
MaxStreamLines == 4
MaxHeaders == 1
MaxRouteCalls == 2

\* stats_store.record_request calls made, over all threads
MaxRecordCalls == 3

\* check_rpm calls made, over all threads
MaxCheckCalls == 4

\* RateLimiter.rpm; stands for the default of 60, scaled down
MaxRpm == 2

\* the length of the sliding window in seconds
WindowSeconds == 60

\* CacheManager calls made, over all threads
MaxCacheCalls == 4

\* the length the in-memory request log is cut to; stands for MAX_LOG_ENTRIES
\* (2000), scaled down
MaxLogEntries == 2

\* --------------------------------------------------------------- constants
NoCap == 0 - 1
EstInputTokens == 1000
EstOutputTokens == 500
ConfidenceThreshold == 60

Providers == {"openai", "anthropic", "groq", "google", "deepseek"}

\* main.py PROVIDER_KEY_HEADERS: header name -> provider name
PROVIDER_KEY_HEADERS ==
    [h \in {"x-openai-key", "x-anthropic-key", "x-groq-key", "x-google-key",
            "x-deepseek-key"} |->
        CASE h = "x-openai-key" -> "openai"
          [] h = "x-anthropic-key" -> "anthropic"
          [] h = "x-groq-key" -> "groq"
          [] h = "x-google-key" -> "google"
          [] OTHER -> "deepseek"]

\* -------------------------------------------------------------- the catalog
Info(p, mt, ic, oc, q) ==
    [provider |-> p, max_tokens |-> mt, input_cost |-> ic, output_cost |-> oc,
     quality_tier |-> q]

\* registry.py MODELS, in dictionary (insertion) order
ModelOrder ==
    << <<"openai", "gpt-4o">>, <<"openai", "gpt-4o-mini">>,
       <<"anthropic", "claude-opus">>, <<"anthropic", "claude-sonnet">>,
       <<"anthropic", "claude-haiku">>,
       <<"groq", "llama-3.3-70b">>, <<"groq", "mixtral-8x7b">>,
       <<"google", "gemini-2.5-pro">>, <<"google", "gemini-2.5-flash">>,
       <<"deepseek", "deepseek-v3">>, <<"deepseek", "deepseek-r1">> >>

CatalogIds == {ModelOrder[i] : i \in 1..Len(ModelOrder)}

MODELS ==
    [m \in CatalogIds |->
        CASE m = <<"openai", "gpt-4o">> -> Info("openai", 16384, 250, 1000, 1)
          [] m = <<"openai", "gpt-4o-mini">> -> Info("openai", 16384, 15, 60, 2)
          [] m = <<"anthropic", "claude-opus">> -> Info("anthropic", 8192, 1500, 7500, 1)
          [] m = <<"anthropic", "claude-sonnet">> -> Info("anthropic", 8192, 300, 1500, 1)
          [] m = <<"anthropic", "claude-haiku">> -> Info("anthropic", 8192, 80, 400, 2)
          [] m = <<"groq", "llama-3.3-70b">> -> Info("groq", 8192, 59, 79, 2)
          [] m = <<"groq", "mixtral-8x7b">> -> Info("groq", 32768, 24, 24, 3)
          [] m = <<"google", "gemini-2.5-pro">> -> Info("google", 8192, 125, 500, 1)
          [] m = <<"google", "gemini-2.5-flash">> -> Info("google", 8192, 15, 60, 2)
          [] m = <<"deepseek", "deepseek-v3">> -> Info("deepseek", 8192, 27, 110, 2)
          [] OTHER -> Info("deepseek", 8192, 55, 219, 1)]

\* registry.py DIFFICULTY_ROUTING (initial value of the mutable table)
DIFFICULTY_ROUTING ==
    [d \in {"simple", "medium", "complex"} |->
        CASE d = "simple" -> << <<"groq", "llama-3.3-70b">>,
                                <<"deepseek", "deepseek-v3">>,
                                <<"groq", "mixtral-8x7b">> >>
          [] d = "medium" -> << <<"openai", "gpt-4o-mini">>,
                                <<"anthropic", "claude-haiku">>,
                                <<"google", "gemini-2.5-flash">> >>
          [] OTHER -> << <<"openai", "gpt-4o">>,
                         <<"anthropic", "claude-sonnet">>,
                         <<"google", "gemini-2.5-pro">> >>]

\* registry.py FALLBACK_CHAINS (initial value of the mutable table)
FALLBACK_CHAINS ==
    [s \in {"quality", "balanced", "economy"} |->
        CASE s = "quality" -> << <<"anthropic", "claude-sonnet">>,
                                 <<"openai", "gpt-4o">>,
                                 <<"google", "gemini-2.5-pro">>,
                                 <<"deepseek", "deepseek-r1">> >>
          [] s = "balanced" -> << <<"openai", "gpt-4o-mini">>,
                                  <<"anthropic", "claude-haiku">>,
                                  <<"groq", "llama-3.3-70b">>,
                                  <<"deepseek", "deepseek-v3">> >>
          [] OTHER -> << <<"groq", "mixtral-8x7b">>,
                         <<"groq", "llama-3.3-70b">>,
                         <<"deepseek", "deepseek-v3">>,
                         <<"google", "gemini-2.5-flash">> >>]

\* router.py INTENT_DIFFICULTY
INTENT_DIFFICULTY ==
    [i \in {"research", "analyze", "implement"} |->
        IF i = "implement" THEN "medium" ELSE "complex"]

\* router.py SIMPLE_KEYWORDS / COMPLEX_KEYWORDS
SIMPLE_KEYWORDS ==
    {"translate", "summarize", "summary", "explain", "define", "what is",
     "hello", "hi", "hey", "thanks", "help", "faq", "list", "how to"}

COMPLEX_KEYWORDS ==
    {"architecture", "design", "optimize", "refactor", "debug", "security",
     "implement complex", "multi-step", "reasoning", "prove", "analyze deeply",
     "compare and contrast", "trade-off", "system design"}

\* ------------------------------------------------------------ request inputs
Msg(r, c) == [role |-> r, content |-> c]

\* the message texts requests are built from
Texts == {"Summarize this article", "Design the system architecture",
          "Write a parser", "You are terse", "OK"}

\* the keywords of either set that occur in text.lower() (str.__contains__)
KeywordsIn(text) ==
    CASE text = "Summarize this article" -> {"summarize", "hi"}
      [] text = "Design the system architecture" ->
             {"design", "architecture", "hi"}
      [] OTHER -> {}

MessageLists ==
    { << Msg("user", "Summarize this article") >>,
      << Msg("system", "You are terse"),
         Msg("user", "Design the system architecture"),
         Msg("assistant", "OK") >>,
      << Msg("user", "Write a parser") >> }

\* what nlp.intent_detector.detect_intent answers for the request's text:
\* an analysis, or an exception (ok = FALSE)
Detection(ok, i, c) == [ok |-> ok, intent |-> i, confidence |-> c]

Detections ==
    { Detection(FALSE, "", 0), Detection(TRUE, "research", 90) }

\* ------------------------------------------------------------ the registry
\* an estimate that prices the input tokens at the output rate and the output
\* tokens at the input rate
Estimate_RatesSwapped(info, input_tokens, output_tokens) ==
    input_tokens * info.output_cost + output_tokens * info.input_cost

\* TokenPricing.estimate without the final division: units of 1e-8 USD
Estimate(info, input_tokens, output_tokens) ==
    input_tokens * info.input_cost + output_tokens * info.output_cost

\* rank of the id string in Python's str ordering (ties of the tuple sort)
IdRank(m) ==
    CASE m = <<"anthropic", "claude-haiku">> -> 1
      [] m = <<"anthropic", "claude-opus">> -> 2
      [] m = <<"anthropic", "claude-sonnet">> -> 3
      [] m = <<"deepseek", "deepseek-r1">> -> 4
      [] m = <<"deepseek", "deepseek-v3">> -> 5
      [] m = <<"google", "gemini-2.5-flash">> -> 6
      [] m = <<"google", "gemini-2.5-pro">> -> 7
      [] m = <<"groq", "llama-3.3-70b">> -> 8
      [] m = <<"groq", "mixtral-8x7b">> -> 9
      [] m = <<"openai", "gpt-4o">> -> 10
      [] OTHER -> 11

\* "/" in model_id
HasSlash(model_id) == Len(model_id) > 1

\* model_id in mid, for an id without "/" (substring of the catalog id string)
SubstringOfId(model_id, mid) ==
    \/ model_id[1] = mid[1]
    \/ model_id[1] = mid[2]
    \/ model_id[1] = "gpt-4o" /\ mid[2] = "gpt-4o-mini"

\* ModelRegistry.resolve_model: (provider_name, api_model_name)
resolve_model(model_id) ==
    IF HasSlash(model_id)
    THEN <<model_id[1], Tail(model_id)>>
    ELSE LET hits == {i \in 1..Len(ModelOrder) : SubstringOfId(model_id, ModelOrder[i])}
         IN IF hits # {}
            THEN LET first == CHOOSE i \in hits : \A j \in hits : i <= j
                 IN <<MODELS[ModelOrder[first]].provider, model_id>>
            ELSE <<"", model_id>>

\* get_provider answering a bare model name through resolve_model's substring
\* match instead of None
get_provider_Lenient(registered, model_id) ==
    IF resolve_model(model_id)[1] \in registered
    THEN resolve_model(model_id)[1] ELSE ""

\* ModelRegistry.get_provider: the adapter's name, "" for None
get_provider(registered, model_id) ==
    IF HasSlash(model_id) /\ model_id[1] \in registered THEN model_id[1] ELSE ""

\* ModelRegistry.get_models_by_difficulty
get_models_by_difficulty(table, difficulty) ==
    IF difficulty \in DOMAIN table THEN table[difficulty] ELSE table["medium"]

\* ModelRegistry.get_fallback_chain
get_fallback_chain(chains, strategy) ==
    IF strategy \in DOMAIN chains THEN chains[strategy] ELSE chains["balanced"]

\* ModelRegistry.estimate_cost
estimate_cost(model_id, input_tokens, output_tokens) ==
    IF model_id \in CatalogIds
    THEN Estimate(MODELS[model_id], input_tokens, output_tokens)
    ELSE 0

\* Python's tuple comparison a < b on integer tuples of equal length
RECURSIVE LexLess(_, _)
LexLess(a, b) ==
    IF a = <<>> THEN FALSE
    ELSE IF a[1] # b[1] THEN a[1] < b[1]
    ELSE LexLess(Tail(a), Tail(b))

\* an insertion that puts x in front of its equals (a sort that is not stable)
InsertSorted_BeforeEquals(s, x, key) ==
    LET notBefore == {i \in 1..Len(s) : ~LexLess(key[s[i]], key[x])}
        at == IF notBefore = {} THEN Len(s) + 1
              ELSE CHOOSE i \in notBefore : \A j \in notBefore : i <= j
    IN SubSeq(s, 1, at - 1) \o <<x>> \o SubSeq(s, at, Len(s))

\* stable insertion of x into the sorted sequence s, after its equals
RECURSIVE InsertSorted(_, _, _)
InsertSorted(s, x, key) ==
    IF s = <<>> THEN <<x>>
    ELSE IF LexLess(key[x], key[s[1]]) THEN <<x>> \o s
    ELSE <<s[1]>> \o InsertSorted(Tail(s), x, key)

\* list.sort(key=...): stable sort of s by the integer tuple key[element]
RECURSIVE StableSort(_, _)
StableSort(s, key) ==
    IF s = <<>> THEN <<>>
    ELSE InsertSorted(StableSort(SubSeq(s, 1, Len(s) - 1), key), s[Len(s)], key)

\* a budget filter that lets every catalog model through
Affordable_All(i, budget, input_tokens, output_tokens) ==
    [k \in 1..Len(ModelOrder) |->
        <<MODELS[ModelOrder[k]].quality_tier,
          Estimate(MODELS[ModelOrder[k]], input_tokens, output_tokens),
          ModelOrder[k]>>]

\* select_by_budget's loop from the i-th catalog entry on: the
\* (quality_tier, cost, id) tuples of the models whose cost is within budget
RECURSIVE Affordable(_, _, _, _)
Affordable(i, budget, input_tokens, output_tokens) ==
    IF i > Len(ModelOrder) THEN <<>>
    ELSE LET mid == ModelOrder[i]
             cost == Estimate(MODELS[mid], input_tokens, output_tokens)
         IN (IF cost <= budget
             THEN << <<MODELS[mid].quality_tier, cost, mid>> >>
             ELSE <<>>)
            \o Affordable(i + 1, budget, input_tokens, output_tokens)

\* a selection that returns the affordable models in catalog order, unsorted
select_by_budget_CatalogOrder(budget, input_tokens, output_tokens) ==
    [i \in 1..Len(Affordable(1, budget, input_tokens, output_tokens)) |->
        Affordable(1, budget, input_tokens, output_tokens)[i][3]]

\* ModelRegistry.select_by_budget
select_by_budget(budget, input_tokens, output_tokens) ==
    LET affordable == Affordable(1, budget, input_tokens, output_tokens)
        elems == {affordable[i] : i \in 1..Len(affordable)}
        sorted == StableSort(affordable,
                             [t \in elems |-> <<t[1], t[2], IdRank(t[3])>>])
    IN [i \in 1..Len(sorted) |-> sorted[i][3]]

\* -------------------------------------------------------------- the router
\* router.py _classify_difficulty
_classify_difficulty(text) ==
    IF KeywordsIn(text) \cap COMPLEX_KEYWORDS # {} THEN "complex"
    ELSE IF KeywordsIn(text) \cap SIMPLE_KEYWORDS # {} THEN "simple"
    ELSE "medium"

\* an extraction that scans the messages forward and stops at the first user turn
_extract_user_text_First(messages) ==
    LET users == {i \in 1..Len(messages) : messages[i].role = "user"}
    IN IF users = {} THEN ""
       ELSE messages[CHOOSE i \in users : \A j \in users : i <= j].content

\* router.py _extract_user_text: the content of the last user message
_extract_user_text(messages) ==
    LET users == {i \in 1..Len(messages) : messages[i].role = "user"}
    IN IF users = {} THEN ""
       ELSE messages[CHOOSE i \in users : \A j \in users : j <= i].content

\* [m for m in s if m in keep]
RECURSIVE FilterIn(_, _)
FilterIn(s, keep) ==
    IF s = <<>> THEN <<>>
    ELSE (IF s[1] \in keep THEN <<s[1]>> ELSE <<>>) \o FilterIn(Tail(s), keep)

Range(s) == {s[i] : i \in 1..Len(s)}

\* the sort key route() uses for the given preference (the 999 USD of an id
\* outside the catalog is 2000000000 here: above every catalog estimate)
PreferKey(prefer, m) ==
    CASE prefer = "speed" -> <<IF m[1] = "groq" THEN 0 ELSE 1>>
      [] prefer = "quality" ->
             <<IF m \in CatalogIds THEN MODELS[m].quality_tier ELSE 9>>
      [] OTHER ->
             <<IF m \in CatalogIds
               THEN Estimate(MODELS[m], EstInputTokens, EstOutputTokens)
               ELSE 2000000000>>

\* route(): intent and confidence, the defaults when detect_intent raised
RouteIntent(det) == IF det.ok THEN det.intent ELSE "implement"

\* a default confidence that is not below the threshold
RouteConfidence_AtThreshold(det) == IF det.ok THEN det.confidence ELSE 60

\* route(): confidence, 0.5 when detect_intent raised
RouteConfidence(det) == IF det.ok THEN det.confidence ELSE 50

\* route(): "Determine difficulty"
RouteDifficulty(messages, det) ==
    IF RouteConfidence(det) < ConfidenceThreshold
    THEN _classify_difficulty(_extract_user_text(messages))
    ELSE IF RouteIntent(det) \in DOMAIN INTENT_DIFFICULTY
         THEN INTENT_DIFFICULTY[RouteIntent(det)]
         ELSE "medium"

\* affordable[:3]
FirstThree(s) == SubSeq(s, 1, IF Len(s) < 3 THEN Len(s) ELSE 3)

\* [m for m in candidates if m in affordable] or affordable[:3]
WithinBudget(bucket, affordable) ==
    IF FilterIn(bucket, Range(affordable)) # <<>>
    THEN FilterIn(bucket, Range(affordable))
    ELSE FirstThree(affordable)

\* route(): "Get candidate models" and "Apply budget constraint"
RouteCandidates(table, difficulty, budget_cap) ==
    IF budget_cap = NoCap
    THEN get_models_by_difficulty(table, difficulty)
    ELSE WithinBudget(get_models_by_difficulty(table, difficulty),
                      select_by_budget(budget_cap, EstInputTokens, EstOutputTokens))

\* route(): "Apply preference" (candidates.sort(key=...))
RoutePreferred(candidates, prefer) ==
    IF prefer \in {"speed", "quality", "cost"}
    THEN StableSort(candidates, [m \in Range(candidates) |-> PreferKey(prefer, m)])
    ELSE candidates

\* a strategy choice that treats a missing preference like speed or cost
RouteStrategy_QualityOnly(prefer, difficulty) ==
    IF prefer = "quality"
    THEN (IF difficulty = "complex" THEN "quality" ELSE "balanced")
    ELSE "economy"

\* route(): "Build fallback chain"
RouteStrategy(prefer, difficulty) ==
    IF prefer \in {"quality", "none"}
    THEN (IF difficulty = "complex" THEN "quality" ELSE "balanced")
    ELSE "economy"

\* router.py route(): the decision, and the difficulty table as the call
\* leaves it (candidates.sort works in place on the table's own list when no
\* budget_cap made a new list)
RouteRun(table, chains, messages, budget_cap, prefer, det) ==
    [decision |->
        [difficulty |-> RouteDifficulty(messages, det),
         intent |-> RouteIntent(det),
         confidence |-> RouteConfidence(det),
         recommended_models |->
             RoutePreferred(RouteCandidates(table, RouteDifficulty(messages, det),
                                            budget_cap), prefer),
         fallback_chain |->
             get_fallback_chain(chains,
                 RouteStrategy(prefer, RouteDifficulty(messages, det)))],
     table |->
        IF budget_cap = NoCap
        THEN [table EXCEPT ![RouteDifficulty(messages, det)] =
                 RoutePreferred(RouteCandidates(table, RouteDifficulty(messages, det),
                                                budget_cap), prefer)]
        ELSE table]

\* router.py route(): the RoutingDecision returned
route(table, chains, messages, budget_cap, prefer, det) ==
    RouteRun(table, chains, messages, budget_cap, prefer, det).decision

\* ------------------------------------------------------------------- state
VARIABLES
    serverKeys,         \* settings: providers whose *_api_key is non-empty
    registered,         \* registry._providers: names with an adapter
    difficultyRouting,  \* registry.DIFFICULTY_ROUTING (lists are mutable)
    fallbackChains,     \* registry.FALLBACK_CHAINS
    stats,              \* chat._stats, and the request log of stats_store
    pc,                 \* where the request in progress is suspended
    headers,            \* the provider-key headers the caller sent with it
    req,                \* the request held by the handler's frame
    user_keys,          \* chat_completions: extract_user_provider_keys(request)
    model_id,           \* chat_completions: the model chosen for dispatch
    chain,              \* _try_fallback: decision.fallback_chain being walked
    walk,               \* _try_fallback: index in the chain of the candidate awaited
    dispatches,         \* upstream calls made for the request so far
    reply,              \* what the caller has received (status line / body)
    gen,                \* _handle_stream.generate: the generator's frame
    upstream,           \* the lines the upstream has sent on the open stream
    sse,                \* the events the client has received on the stream
    routed,             \* the last POST /v1/route call: its body and its answer
    adapterCall,        \* the last Adapter.chat_completion call made on its own
    priceCall,          \* the last ModelRegistry pricing call made on its own
    log,                \* the records the handlers wrote to the application log
    auth,               \* main.authenticate: settings.api_keys and the last request
    store,              \* stats_store: _stats, _request_log, _lock and the calling threads
    limiter,            \* api.middleware.rate_limiter and the threads calling check_rpm
    cache               \* nlp.cache_manager: one CacheManager, its file and its callers

\* the state of the gateway's request path
gatewayVars ==
    <<adapterCall, priceCall, routed, serverKeys, registered, log, difficultyRouting,
      fallbackChains, stats, pc, headers, req, user_keys, model_id, chain, walk,
      dispatches, reply, gen, upstream, sse>>

\* the state of the components outside the gateway's request path
sideVars == <<auth, store, limiter, cache>>

vars == <<serverKeys, registered, difficultyRouting, fallbackChains, stats, pc,
          headers, req, user_keys, model_id, chain, walk, dispatches, reply, gen, upstream, sse,
          routed, adapterCall, priceCall, log, sideVars>>

\* ------------------------------------------------------------------ values
NoKey == [owner |-> "", source |-> "none"]

\* the secret a caller put in request header h
HeaderSecret(h) == [owner |-> h, source |-> "header"]

\* the secret in settings.<p>_api_key
ServerSecret(p) == [owner |-> p, source |-> "server"]

NoModel == <<>>

NoReq ==
    [model |-> NoModel, messages |-> <<>>, stream |-> FALSE, budget_cap |-> NoCap,
     auto_route |-> FALSE, detected |-> Detection(FALSE, "", 0)]

NoUsage == [prompt_tokens |-> 0, completion_tokens |-> 0, total_tokens |-> 0]

NoError == [model |-> NoModel, kind |-> ""]

NoReply ==
    [status |-> 0, type |-> "", model |-> NoModel, provider |-> "",
     usage |-> NoUsage, cost_usd |-> 0 - 1, error |-> NoError]

NoGen == [provider |-> "", model |-> NoModel, api_key |-> NoKey]

\* the model field of the requests
ReqModels ==
    { <<"auto">>, <<"gpt-4o">>, <<"foo", "bar">>,
      <<"openai", "gpt-4o-mini">>,
      <<"anthropic", "claude-sonnet">>, <<"groq", "llama-3.3-70b">>,
      <<"google", "gemini-2.5-pro">>, <<"deepseek", "deepseek-v3">> }

\* budget_cap values: none, $0.0001 (below every model), $0.001
BudgetCaps == {NoCap, 10000, 100000}

\* deployments: which providers have a server default key
ServerKeyConfigs ==
    { {}, {"openai", "groq", "deepseek"}, Providers }

\* the usage figures an upstream reports with a completion
UpstreamUsages ==
    { [prompt_tokens |-> 1000, completion_tokens |-> 500, total_tokens |-> 1500],
      NoUsage }

\* how an upstream call ends: a completion, an HTTP 503, an HTTP 400, or a 2xx
\* whose body is not JSON
Outcomes == {"ok", "http_503", "http_400", "bad_json"}

\* how a fallback candidate's call ends (every failure takes the same branch)
FallbackOutcomes == {"ok", "bad_json"}

\* httpx.HTTPStatusError is an Exception; json.JSONDecodeError is a ValueError
IsValueError(outcome) == outcome = "bad_json"

\* RouteRequest.prefer: "speed", "quality", "cost", or "none" for None
Prefers == {"none", "speed", "quality", "cost"}

\* RouteRequest.messages: also two user turns, and no user turn at all
RouteMessageLists ==
    MessageLists \cup
    { << Msg("user", "Design the system architecture"),
         Msg("assistant", "OK"),
         Msg("user", "Summarize this article") >>,
      << Msg("system", "You are terse") >> }

\* detect_intent answers for a /v1/route call: also confidence exactly 0.6,
\* confidence just below it, and an intent outside INTENT_DIFFICULTY
RouteDetections ==
    Detections \cup
    { Detection(TRUE, "implement", 60), Detection(TRUE, "analyze", 59),
      Detection(TRUE, "chat", 80) }

\* RouteRequest.budget_cap: also a cap only one catalog model fits
RouteCaps == BudgetCaps \cup {40000}

\* no RoutingDecision
NoDecision ==
    [difficulty |-> "", intent |-> "", confidence |-> 0,
     recommended_models |-> <<>>, fallback_chain |-> <<>>]

\* no /v1/route call so far
NoRouted ==
    [calls |-> 0, repeated |-> FALSE, messages |-> <<>>, budget_cap |-> NoCap,
     prefer |-> "none", detected |-> Detection(FALSE, "", 0), decision |-> NoDecision]

\* the message arrays handed to an adapter: no system message, one (first or
\* in the middle), several, and a role that is none of system/user/assistant
AdapterMessageLists ==
    { << Msg("user", "Write a parser") >>,
      << Msg("system", "You are terse"),
         Msg("user", "Design the system architecture"),
         Msg("assistant", "OK") >>,
      << Msg("user", "Summarize this article"),
         Msg("system", "You are terse"),
         Msg("user", "Write a parser") >>,
      << Msg("system", "You are terse"),
         Msg("system", "OK"),
         Msg("user", "Write a parser") >>,
      << Msg("system", "You are terse"),
         Msg("user", "Summarize this article"),
         Msg("assistant", "OK"),
         Msg("system", "Design the system architecture"),
         Msg("user", "Write a parser") >>,
      << Msg("user", "Write a parser"),
         Msg("tool", "OK"),
         Msg("user", "Summarize this article") >> }

\* the ids an adapter is called for: the catalog, and names without an alias
AdapterCallIds ==
    CatalogIds \cup { <<"groq", "gemma2-9b-it">>, <<"openai", "o3">>,
                      <<"deepseek", "deepseek-coder">> }

\* a request body without the optional field: None / key absent
Absent == <<>>

NoPayload == [model |-> NoModel, system |-> Absent, messages |-> <<>>]

NoPriceCall ==
    [op |-> "", model_id |-> NoModel, budget |-> NoCap, input_tokens |-> 0,
     output_tokens |-> 0, cost |-> 0, ids |-> <<>>]

NoAdapterCall ==
    [id |-> NoModel, provider |-> "", model |-> NoModel, messages |-> <<>>,
     stream |-> FALSE, payload |-> NoPayload, response |-> NoReply, line |-> "",
     yielded |-> <<>>]

\* ------------------------------------------------ authentication inputs
\* a credential a caller may present: its text, whether the text starts with
\* "tr-", and what jwt.decode makes of it under settings.jwt_secret
Token(text, tr, jwt) == [text |-> text, tr |-> tr, jwt |-> jwt]

NoToken == Token("", FALSE, "none")

Tokens ==
    { Token("jwt-alice", FALSE, "valid"), Token("jwt-alice-old", FALSE, "expired"),
      Token("jwt-forged", FALSE, "forged"), Token("jwt-nosub", FALSE, "nosub"),
      Token("tr-alice", TRUE, "none"), Token("tr-bob", TRUE, "none"),
      Token("tr-nobody", TRUE, "none"), Token("tr-ops", TRUE, "none"),
      Token("admin-key", FALSE, "none"), Token("guess", FALSE, "none") }

\* the users table
USERS ==
    { [id |-> "alice", api_key |-> "tr-alice", is_active |-> TRUE],
      [id |-> "bob", api_key |-> "tr-bob", is_active |-> FALSE] }

\* settings.api_keys of a deployment: none (dev mode), one key, or two of
\* which one has the tr- prefix
ApiKeyConfigs == { {}, {"admin-key"}, {"admin-key", "tr-ops"} }

\* a request: its path, its Authorization header (a scheme and what follows
\* it, both empty when absent) and its x-api-key header
AuthRequest(path, authorization, x_api_key) ==
    [path |-> path, authorization |-> authorization, x_api_key |-> x_api_key]

AuthRequests ==
    { AuthRequest(p, a, k) :
        \* paths, by segments
        p \in { <<"health">>, <<"dashboard", "index.html">>, <<"v1", "auth", "login">>,
                 <<"v1", "auth", "me">>, <<"v1", "chat", "completions">>,
                 <<"v1", "stats">> },
        a \in {[scheme |-> "", token |-> NoToken]} \cup
              {[scheme |-> "Bearer", token |-> t] : t \in Tokens \cup {NoToken}} \cup
              {[scheme |-> "Basic", token |-> Token("guess", FALSE, "none")]},
        k \in {NoToken, Token("admin-key", FALSE, "none"),
               Token("tr-alice", TRUE, "none"), Token("jwt-alice", FALSE, "valid")} }

NoAuth ==
    [api_keys |-> {}, calls |-> 0,
     request |-> AuthRequest(<<>>, [scheme |-> "", token |-> NoToken], NoToken),
     status |-> 0, handler_ran |-> FALSE, user_id |-> ""]

\* ------------------------------------------------------- stats_store inputs
\* (provider, model_id) of the recorded requests
RecordInputs ==
    { <<"groq", <<"groq", "llama-3.3-70b">> >>,
      <<"openai", <<"openai", "gpt-4o-mini">> >>,
      <<"openai", <<"openai", "gpt-4o">> >> }

\* the entry record_request builds; ts is time.time() at the call
LogEntry(ts, input) == [ts |-> ts, provider |-> input[1], model |-> input[2]]

\* the module after import: _load() has read n entries back from
\* request_log.jsonl and as many requests from stats.json; no call in progress
LoadedStore(n) ==
    [total_requests |-> n,
     requests_by_provider |-> [p \in {"groq", "openai"} |-> IF p = "groq" THEN n ELSE 0],
     requests_by_model |->
         [m \in {i[2] : i \in RecordInputs} |->
             IF m = <<"groq", "llama-3.3-70b">> THEN n ELSE 0],
     request_log |-> [i \in 1..n |-> LogEntry(i - n - 1, <<"groq", <<"groq", "llama-3.3-70b">> >>)],
     written |-> [i \in 1..n |-> LogEntry(i - n - 1, <<"groq", <<"groq", "llama-3.3-70b">> >>)],
     log_file |-> n, since_last_flush |-> 0, stats_file |-> n,
     lock |-> 0, clock |-> 0, calls |-> 0,
     thread |-> [t \in {1, 2} |->
                    [pc |-> "idle", entry |-> LogEntry(0, <<"", <<>> >>),
                     seen |-> [total |-> 0, provider |-> 0, model |-> 0]]]]

\* ------------------------------------------------------ rate limiter inputs
\* RateLimiter(): empty windows, a free lock; no check_rpm call in progress.
\* admitted holds, per key, the `now` of every call that returned True
NewRateLimiter ==
    [request_windows |-> [k \in {"k1", "k2"} |-> <<>>],
     admitted |-> [k \in {"k1", "k2"} |-> <<>>],
     lock |-> 0, clock |-> 0, calls |-> 0,
     thread |-> [t \in {1, 2} |-> [pc |-> "idle", key_hash |-> "", now |-> 0,
                                   allowed |-> FALSE]]]

\* ----------------------------------------------------- cache manager inputs
\* (namespace, key) arguments, each a text given by its ":"-separated pieces
CachePairs ==
    { << <<"a">>, <<"b", "c">> >>, << <<"a", "b">>, <<"c">> >>,
      << <<"default">>, <<"k">> >> }

\* values handed to set(): two strings, a tuple and a set
CacheValues ==
    { [type |-> "str", val |-> <<"old">>], [type |-> "str", val |-> <<"new">>],
      [type |-> "tuple", val |-> <<1, 2>>], [type |-> "set", val |-> <<1, 2>>] }

\* CacheManager(cache_dir) on an empty directory: nothing in memory, no
\* cache.jsonl, no call in progress. written, found, missed and cleared record
\* the calls made: the last set() of each (namespace, key) and its thread, the
\* get() calls by outcome, and whether clear_cache was called
NewCacheManager ==
    [memory_cache |-> <<>>, exists |-> FALSE, lines |-> <<>>,
     hits |-> 0, misses |-> 0, calls |-> 0,
     written |-> [p \in CachePairs |-> <<>>],
     found |-> 0, missed |-> 0, cleared |-> FALSE, compacted |-> FALSE,
     thread |-> [t \in {1, 2} |-> [pc |-> "idle", seen |-> 0,
                                   pair |-> <<>>, got |-> <<>>]]]

GatewayInit ==
    /\ serverKeys \in ServerKeyConfigs
    /\ registered = Providers
    /\ difficultyRouting = DIFFICULTY_ROUTING
    /\ fallbackChains = FALLBACK_CHAINS
    /\ stats = [total_requests |-> 0, total_tokens |-> 0, total_cost_usd |-> 0,
                requests_by_provider |-> [p \in Providers |-> 0],
                requests_by_model |-> [m \in ReqModels \cup CatalogIds |-> 0],
                latency_samples |-> 0, request_log |-> <<>>]
    /\ pc = "idle"
    /\ headers = {}
    /\ req = NoReq
    /\ user_keys = [p \in Providers |-> NoKey]
    /\ model_id = NoModel
    /\ chain = <<>>
    /\ walk = 0
    /\ dispatches = <<>>
    /\ reply = NoReply
    /\ gen = NoGen
    /\ upstream = <<>>
    /\ sse = <<>>
    /\ routed = NoRouted
    /\ adapterCall = NoAdapterCall
    /\ priceCall = NoPriceCall
    /\ log = <<>>

\* the components outside the request path, before their first call
SideInit ==
    /\ auth = NoAuth
    /\ store = LoadedStore(0)
    /\ limiter = NewRateLimiter
    /\ cache = NewCacheManager

Init == GatewayInit /\ SideInit

\* ---------------------------------------------------------------- adapters
\* the request header sets: at most MaxHeaders provider-key headers
HeaderSets == {hs \in SUBSET DOMAIN PROVIDER_KEY_HEADERS : Cardinality(hs) <= MaxHeaders}

\* main.py extract_user_provider_keys: provider -> the header's value
extract_user_provider_keys(request_headers) ==
    [p \in Providers |->
        LET hs == {h \in request_headers : PROVIDER_KEY_HEADERS[h] = p}
        IN IF hs = {} THEN NoKey ELSE HeaderSecret(CHOOSE h \in hs : TRUE)]

\* a lookup that hands out whichever header key the caller sent, whatever the
\* provider asked for
UserKey_Any(keys, provider_name) ==
    IF DOMAIN keys # {} THEN keys[CHOOSE p \in DOMAIN keys : TRUE] ELSE NoKey

\* user_keys.get(provider_name)
UserKey(keys, provider_name) ==
    IF provider_name \in DOMAIN keys THEN keys[provider_name] ELSE NoKey

\* Adapter.__init__: self._default_key = settings.<provider>_api_key
DefaultKey(adapter) ==
    IF adapter \in serverKeys THEN ServerSecret(adapter) ELSE NoKey

\* Adapter._resolve_key: api_key or self._default_key; NoKey is the ValueError
_resolve_key(adapter, api_key) ==
    IF api_key # NoKey THEN api_key ELSE DefaultKey(adapter)

\* MODEL_MAP of each adapter module: alias -> the upstream's model name
MODEL_MAP ==
    [p \in Providers |->
        CASE p = "openai" ->
                 ("gpt-4o" :> "gpt-4o") @@ ("gpt-4o-mini" :> "gpt-4o-mini")
          [] p = "anthropic" ->
                 ("claude-opus" :> "claude-opus-4-20250514")
                 @@ ("claude-sonnet" :> "claude-sonnet-4-20250514")
                 @@ ("claude-haiku" :> "claude-haiku-4-5-20251001")
          [] p = "google" ->
                 ("gemini-2.5-pro" :> "gemini-2.5-pro-preview-06-05")
                 @@ ("gemini-2.5-flash" :> "gemini-2.5-flash-preview-05-20")
          [] p = "groq" ->
                 ("llama-3.3-70b" :> "llama-3.3-70b-versatile")
                 @@ ("mixtral-8x7b" :> "mixtral-8x7b-32768")
          [] OTHER ->
                 ("deepseek-v3" :> "deepseek-chat")
                 @@ ("deepseek-r1" :> "deepseek-reasoner")]

\* a model name sent upstream as the caller wrote it
_resolve_model_Verbatim(adapter, model) == model

\* Adapter._resolve_model: MODEL_MAP.get(model, model)
_resolve_model(adapter, model) ==
    IF Len(model) = 1 /\ model[1] \in DOMAIN MODEL_MAP[adapter]
    THEN <<MODEL_MAP[adapter][model[1]]>>
    ELSE model

\* ChatMessage.model_dump(exclude_none=True) of a message without a name
model_dump(msg) == [role |-> msg.role, content |-> msg.content]

\* the payload of OpenAIAdapter / GroqAdapter / DeepSeekAdapter
PassthroughPayload(adapter, messages, model) ==
    [model |-> _resolve_model(adapter, model), system |-> Absent,
     messages |-> [i \in 1..Len(messages) |-> model_dump(messages[i])]]

\* AnthropicAdapter._convert_messages, the loop from its current message on:
\* (system_text, api_messages)
RECURSIVE AnthropicConvert(_, _, _)
AnthropicConvert(messages, system_text, api_messages) ==
    IF messages = <<>> THEN <<system_text, api_messages>>
    ELSE IF Head(messages).role = "system"
    THEN AnthropicConvert(Tail(messages), <<Head(messages).content>>, api_messages)
    ELSE AnthropicConvert(Tail(messages), system_text,
             Append(api_messages, [role |-> Head(messages).role,
                                   content |-> Head(messages).content]))

\* `if system_text:` a text that is neither None nor empty
Truthy(system_text) == system_text # Absent /\ system_text[1] # ""

\* the payload of AnthropicAdapter.chat_completion
AnthropicPayload(messages, model) ==
    [model |-> _resolve_model("anthropic", model),
     system |-> IF Truthy(AnthropicConvert(messages, Absent, <<>>)[1])
                THEN AnthropicConvert(messages, Absent, <<>>)[1] ELSE Absent,
     messages |-> AnthropicConvert(messages, Absent, <<>>)[2]]

\* one entry of Gemini's contents
GeminiContent(role, text) == [role |-> role, parts |-> << [text |-> text] >>]

\* GoogleAdapter._convert_messages, the loop from its current message on:
\* (system_text, contents)
RECURSIVE GoogleConvert(_, _, _)
GoogleConvert(messages, system_text, contents) ==
    IF messages = <<>> THEN <<system_text, contents>>
    ELSE IF Head(messages).role = "system"
    THEN GoogleConvert(Tail(messages), <<Head(messages).content>>, contents)
    ELSE IF Head(messages).role = "user"
    THEN GoogleConvert(Tail(messages), system_text,
             Append(contents, GeminiContent("user", Head(messages).content)))
    ELSE IF Head(messages).role = "assistant"
    THEN GoogleConvert(Tail(messages), system_text,
             Append(contents, GeminiContent("model", Head(messages).content)))
    ELSE GoogleConvert(Tail(messages), system_text, contents)

\* the request of GoogleAdapter.chat_completion: the model of the URL, the
\* text of systemInstruction and the contents
GooglePayload(messages, model) ==
    [model |-> _resolve_model("google", model),
     system |-> IF Truthy(GoogleConvert(messages, Absent, <<>>)[1])
                THEN GoogleConvert(messages, Absent, <<>>)[1] ELSE Absent,
     messages |-> GoogleConvert(messages, Absent, <<>>)[2]]

\* what Adapter.chat_completion(messages, model) sends upstream
AdapterPayload(adapter, messages, model) ==
    CASE adapter = "anthropic" -> AnthropicPayload(messages, model)
      [] adapter = "google" -> GooglePayload(messages, model)
      [] OTHER -> PassthroughPayload(adapter, messages, model)

\* Usage(...) as each adapter's chat_completion builds it from the upstream body
AdapterUsage(adapter, u) ==
    IF adapter = "anthropic"
    THEN [prompt_tokens |-> u.prompt_tokens, completion_tokens |-> u.completion_tokens,
          total_tokens |-> u.prompt_tokens + u.completion_tokens]
    ELSE u

\* the ChatCompletionResponse a successful Adapter.chat_completion returns
AdapterResponse(adapter, model_name, u) ==
    [status |-> 200, type |-> "chat.completion", model |-> <<adapter>> \o model_name,
     provider |-> adapter, usage |-> AdapterUsage(adapter, u), cost_usd |-> 0 - 1,
     error |-> NoError]

\* an upstream call: which model, through which adapter, with which credential
Dispatch(mid, adapter, key, phase) ==
    [model |-> mid, provider |-> adapter, key |-> key, phase |-> phase,
     outcome |-> "pending"]

\* the outcome of the call in flight is known
Settle(ds, outcome) == [ds EXCEPT ![Len(ds)].outcome = outcome]

\* the secrets that str(e) shows for the exception of a settled upstream
\* call: an httpx.HTTPStatusError names the request URL, and the Gemini URL
\* carries the key as its `key` query parameter; the other adapters send the
\* key in a header
ErrorSecrets(dispatch) ==
    IF dispatch.provider = "google" /\ dispatch.outcome \in {"http_503", "http_400"}
    THEN {dispatch.key} ELSE {}

\* one record of the application log
LogRecord(text, secrets) == [text |-> text, secrets |-> secrets]

\* HTTPException(status, detail.error.type)
HttpError(status, type, err) ==
    [NoReply EXCEPT !.status = status, !.type = type, !.error = err]

\* ------------------------------------------------- POST /v1/chat/completions
\* a model field that lets an id other than "auto" override auto_route
ChosenModel_Literal(model, auto, recommended) ==
    IF model # <<"auto">> THEN model
    ELSE IF recommended # <<>> THEN recommended[1]
    ELSE <<"groq", "llama-3.3-70b">>

\* chat_completions, "Smart routing if requested": the model id to dispatch
ChosenModel(model, auto, recommended) ==
    IF ~auto THEN model
    ELSE IF recommended # <<>> THEN recommended[1]
    ELSE <<"groq", "llama-3.3-70b">>

\* chat_completions, from its entry to its first suspension or early return,
\* for request bodies and headers drawn from the given sets
ChatRequest(models, streams, autos, headerSets) ==
    /\ pc \in {"idle", "done", "cancelled"}
    /\ stats.total_requests < MaxRequests
    /\ \E m \in models, msgs \in MessageLists, st \in streams,
          cap \in BudgetCaps, ar \in autos, hs \in headerSets, det \in Detections :
        LET r == [model |-> m, messages |-> msgs, stream |-> st, budget_cap |-> cap,
                  auto_route |-> ar, detected |-> det]
            keys == extract_user_provider_keys(hs)
            auto == ar \/ m = <<"auto">>
            run == RouteRun(difficultyRouting, fallbackChains, msgs, cap, "none", det)
            mid == ChosenModel(m, auto, run.decision.recommended_models)
            provider_name == resolve_model(mid)[1]
            model_name == resolve_model(mid)[2]
            provider == get_provider(registered, mid)
            user_key == UserKey(keys, provider_name)
            key == _resolve_key(provider, user_key)
            counted == [stats EXCEPT !.total_requests = @ + 1]
            tracked == [counted EXCEPT !.requests_by_provider[provider_name] = @ + 1,
                                       !.requests_by_model[mid] = @ + 1]
        IN /\ difficultyRouting' = IF auto THEN run.table ELSE difficultyRouting
           /\ headers' = hs
           /\ model_id' = mid
           /\ chain' = <<>>
           /\ walk' = 0
           /\ upstream' = <<>>
           /\ sse' = <<>>
           /\ IF provider = ""
              THEN \* HTTPException(400), raised before the try block
                   /\ stats' = counted
                   /\ reply' = HttpError(400, "invalid_request_error", NoError)
                   /\ pc' = "done"
                   /\ req' = r
                   /\ user_keys' = keys
                   /\ dispatches' = <<>>
                   /\ gen' = NoGen
              ELSE IF st
              THEN \* _handle_stream returns the StreamingResponse; the body is
                   \* produced later by generate(), whose closure keeps the adapter,
                   \* the model name and the key; the handler's frame is released
                   /\ stats' = tracked
                   /\ reply' = [NoReply EXCEPT !.status = 200, !.type = "text/event-stream"]
                   /\ pc' = "stream_start"
                   /\ req' = NoReq
                   /\ user_keys' = [p \in Providers |-> NoKey]
                   /\ dispatches' = <<>>
                   /\ gen' = [provider |-> provider, model |-> model_name,
                              api_key |-> user_key]
              ELSE IF key = NoKey
              THEN \* _auth_headers raises ValueError before the post
                   /\ stats' = tracked
                   /\ reply' = HttpError(401, "authentication_error", NoError)
                   /\ pc' = "done"
                   /\ req' = r
                   /\ user_keys' = keys
                   /\ dispatches' = <<>>
                   /\ gen' = NoGen
              ELSE \* await self._client.post(...)
                   /\ stats' = tracked
                   /\ reply' = NoReply
                   /\ pc' = "primary"
                   /\ req' = r
                   /\ user_keys' = keys
                   /\ dispatches' = <<Dispatch(mid, provider, key, "primary")>>
                   /\ gen' = NoGen
    /\ UNCHANGED <<adapterCall, priceCall, routed,
                   serverKeys, registered, log, sideVars, fallbackChains>>

\* POST /v1/chat/completions with any request body and headers
ChatCompletions == ChatRequest(ReqModels, BOOLEAN, BOOLEAN, HeaderSets)

\* POST /v1/chat/completions {model: "auto"}, not streamed, without key headers
AutoChat == ChatRequest({<<"auto">>}, {FALSE}, {FALSE}, {{}})

\* POST /v1/route, taken while no chat request is in progress:
\* route_recommendation calls route() with the body's prefer and answers with
\* the decision
RouteRecommendation ==
    /\ pc \in {"idle", "done"}
    /\ routed.calls < MaxRouteCalls
    /\ \E msgs \in RouteMessageLists, cap \in RouteCaps, prefer \in Prefers,
          det \in RouteDetections :
        LET run == RouteRun(difficultyRouting, fallbackChains, msgs, cap, prefer, det)
        IN /\ difficultyRouting' = run.table
           /\ routed' = [calls |-> routed.calls + 1,
                         repeated |-> /\ routed.calls > 0
                                      /\ routed.messages = msgs
                                      /\ routed.budget_cap = cap
                                      /\ routed.prefer = prefer
                                      /\ routed.detected = det,
                         messages |-> msgs, budget_cap |-> cap, prefer |-> prefer,
                         detected |-> det, decision |-> run.decision]
    /\ UNCHANGED <<adapterCall, priceCall, serverKeys, registered, log, sideVars,
                   fallbackChains, stats,
                   pc, headers, req, user_keys, model_id, chain, walk, dispatches, reply,
                   gen, upstream, sse>>

\* NextCandidate without `if model_id == failed_model: continue`
RECURSIVE NextCandidate_NoSkip(_, _, _, _)
NextCandidate_NoSkip(fallback_chain, i, failed_model, keys) ==
    IF i > Len(fallback_chain) THEN 0
    ELSE IF get_provider(registered, fallback_chain[i]) = ""
         THEN NextCandidate_NoSkip(fallback_chain, i + 1, failed_model, keys)
    ELSE IF _resolve_key(get_provider(registered, fallback_chain[i]),
                         UserKey(keys, resolve_model(fallback_chain[i])[1])) = NoKey
         THEN NextCandidate_NoSkip(fallback_chain, i + 1, failed_model, keys)
    ELSE i

\* _try_fallback's loop from index i to its next upstream call: the index of
\* the candidate dispatched, 0 when the loop ends without one
RECURSIVE NextCandidate(_, _, _, _)
NextCandidate(fallback_chain, i, failed_model, keys) ==
    IF i > Len(fallback_chain) THEN 0
    ELSE LET mid == fallback_chain[i]
             provider == get_provider(registered, mid)
         IN IF mid = failed_model THEN NextCandidate(fallback_chain, i + 1, failed_model, keys)
            ELSE IF provider = "" THEN NextCandidate(fallback_chain, i + 1, failed_model, keys)
            ELSE IF _resolve_key(provider, UserKey(keys, resolve_model(mid)[1])) = NoKey
                 \* ValueError, swallowed by `except Exception: continue`
                 THEN NextCandidate(fallback_chain, i + 1, failed_model, keys)
            ELSE i

\* _try_fallback's loop resumed at index i, up to its next suspension or return
ContinueWalk(fallback_chain, i, primary_error, ds) ==
    LET n == NextCandidate(fallback_chain, i, model_id, user_keys)
        mid == fallback_chain[n]
        provider == get_provider(registered, mid)
    IN IF n = 0
       THEN \* return None; chat_completions raises HTTPException(502, str(e))
            /\ walk' = 0
            /\ pc' = "done"
            /\ reply' = HttpError(502, "provider_error", primary_error)
            /\ dispatches' = ds
       ELSE /\ walk' = n
            /\ pc' = "fallback"
            /\ reply' = NoReply
            /\ dispatches' = Append(ds,
                   Dispatch(mid, provider,
                            _resolve_key(provider, UserKey(user_keys, resolve_model(mid)[1])),
                            "fallback"))

\* chat_completions resumed when the primary upstream call returns or raises
PrimaryReturns ==
    /\ pc = "primary"
    /\ \E outcome \in Outcomes, u \in UpstreamUsages :
        LET provider == get_provider(registered, model_id)
            model_name == resolve_model(model_id)[2]
            response == AdapterResponse(provider, model_name, u)
            priced == model_id \in CatalogIds
            cost == Estimate(MODELS[model_id], response.usage.prompt_tokens,
                             response.usage.completion_tokens)
            run == RouteRun(difficultyRouting, fallbackChains, req.messages,
                            req.budget_cap, "none", req.detected)
        IN CASE outcome = "ok" ->
                   /\ reply' = IF priced THEN [response EXCEPT !.cost_usd = cost]
                               ELSE response
                   /\ stats' = [stats EXCEPT
                         !.total_cost_usd = IF priced THEN @ + cost ELSE @,
                         !.total_tokens = @ + response.usage.total_tokens,
                         !.latency_samples = @ + 1]
                   /\ dispatches' = Settle(dispatches, outcome)
                   /\ pc' = "done"
                   /\ UNCHANGED <<chain, walk, difficultyRouting, log>>
             [] IsValueError(outcome) ->
                   \* except ValueError: "Missing API key"
                   /\ u = NoUsage
                   /\ reply' = HttpError(401, "authentication_error",
                                         [model |-> model_id, kind |-> outcome])
                   /\ dispatches' = Settle(dispatches, outcome)
                   /\ pc' = "done"
                   /\ UNCHANGED <<chain, walk, stats, difficultyRouting, log>>
             [] OTHER ->
                   \* except Exception: _try_fallback(model_id, req, user_keys)
                   /\ u = NoUsage
                   /\ difficultyRouting' = run.table
                   /\ chain' = run.decision.fallback_chain
                   /\ ContinueWalk(run.decision.fallback_chain, 1,
                                   [model |-> model_id, kind |-> outcome],
                                   Settle(dispatches, outcome))
                   /\ log' = Append(log, LogRecord("Chat completion failed",
                                ErrorSecrets(Settle(dispatches, outcome)[Len(dispatches)])))
                   /\ UNCHANGED stats
    /\ UNCHANGED <<adapterCall, priceCall, routed,
                   serverKeys, registered, sideVars, fallbackChains, headers, req, user_keys,
                   model_id, gen, upstream, sse>>

\* _try_fallback resumed when the awaited candidate's call returns or raises
FallbackReturns ==
    /\ pc = "fallback"
    /\ \E outcome \in FallbackOutcomes, u \in UpstreamUsages :
        LET mid == chain[walk]
            provider == get_provider(registered, mid)
            model_name == resolve_model(mid)[2]
            primary_error == [model |-> dispatches[1].model,
                              kind |-> dispatches[1].outcome]
        IN IF outcome = "ok"
           THEN \* return response
                /\ reply' = AdapterResponse(provider, model_name, u)
                /\ dispatches' = Settle(dispatches, outcome)
                /\ pc' = "done"
                /\ log' = Append(log, LogRecord("Fallback succeeded", {}))
                /\ UNCHANGED walk
           ELSE \* except Exception: continue
                /\ u = NoUsage
                /\ UNCHANGED log
                /\ ContinueWalk(chain, walk + 1, primary_error,
                                Settle(dispatches, outcome))
    /\ UNCHANGED <<adapterCall, priceCall, routed,
                   serverKeys, registered, sideVars, difficultyRouting, fallbackChains, stats,
                   headers, req, user_keys, model_id, chain, gen, upstream, sse>>

\* ---------------------------------------------------------------- streaming
\* the i-th upstream line is identified by i; its kind says what it carries:
\*   blank       a line that does not start with "data: "
\*   bad         "data: " followed by text that is not JSON
\* OpenAI-compatible upstreams (OpenAI, Groq, DeepSeek)
\*   chunk       a chunk object with delta content, finish_reason null
\*   final       a chunk object with empty delta and finish_reason "stop"
\*   done        "data: [DONE]"
\* Anthropic
\*   delta       content_block_delta with text
\*   delta_empty content_block_delta without text
\*   ping        an event of another type
\*   message_stop
\* Gemini (candidate events)
\*   nocand      an event without candidates
\*   text        parts with text, no finishReason
\*   text_stop   parts with text, finishReason "STOP"
\*   stop        no text, finishReason "STOP"
\*   text_max    parts with text, finishReason "MAX_TOKENS"
LineKinds(adapter) ==
    CASE adapter = "anthropic" ->
             {"blank", "bad", "delta", "delta_empty", "ping", "message_stop"}
      [] adapter = "google" ->
             {"blank", "bad", "nocand", "text", "text_stop", "stop", "text_max"}
      [] OTHER -> {"blank", "bad", "chunk", "final", "done"}

\* one SSE event as the client receives it
Event(type, src, content, finish_reason, model) ==
    [type |-> type, src |-> src, content |-> content, text |-> <<>>,
     finish_reason |-> finish_reason, model |-> model]

DoneEvent(src) == Event("done", src, FALSE, "", NoModel)

\* generate(): {"error": {"message": str(e), "type": "stream_error"}}
ErrorEvent == Event("stream_error", 0, FALSE, "", NoModel)

\* OpenAIAdapter / GroqAdapter / DeepSeekAdapter .chat_completion_stream:
\* what one upstream line makes the adapter yield
PassthroughYield(adapter, model_name, i, kind) ==
    CASE kind = "done" -> <<DoneEvent(i)>>
      [] kind = "chunk" -> <<Event("chunk", i, TRUE, "", <<adapter>> \o model_name)>>
      [] kind = "final" -> <<Event("chunk", i, FALSE, "stop", <<adapter>> \o model_name)>>
      [] kind = "bad" -> <<Event("raw", i, FALSE, "", NoModel)>>
      [] OTHER -> <<>>

\* AnthropicAdapter.chat_completion_stream: the yields for one upstream line
AnthropicYield(model_name, i, kind) ==
    CASE kind = "delta" -> <<Event("chunk", i, TRUE, "", <<"anthropic">> \o model_name)>>
      [] kind = "message_stop" ->
             <<Event("chunk", i, FALSE, "stop", <<"anthropic">> \o model_name),
               DoneEvent(i)>>
      [] OTHER -> <<>>

\* the JSON event a Gemini line of each kind carries; a text is the sequence
\* of its pieces, and a part without "text" counts as the empty text
GoogleEvent(kind) ==
    CASE kind = "text" ->
             [candidates |-> TRUE, parts |-> << <<"Hel">>, <<"lo">> >>,
              finishReason |-> ""]
      [] kind = "text_stop" ->
             [candidates |-> TRUE, parts |-> << <<"wor">>, <<>>, <<"ld">> >>,
              finishReason |-> "STOP"]
      [] kind = "stop" ->
             [candidates |-> TRUE, parts |-> << <<>> >>, finishReason |-> "STOP"]
      [] kind = "text_max" ->
             [candidates |-> TRUE, parts |-> << <<"Hel">> >>,
              finishReason |-> "MAX_TOKENS"]
      [] OTHER -> [candidates |-> FALSE, parts |-> <<>>, finishReason |-> ""]

\* "".join(p.get("text", "") for p in parts)
RECURSIVE JoinParts(_)
JoinParts(parts) ==
    IF parts = <<>> THEN <<>> ELSE Head(parts) \o JoinParts(Tail(parts))

\* the chunk with delta {"content": text} and finish_reason None
GoogleDelta(model_name, i, text) ==
    [Event("chunk", i, TRUE, "", <<"google">> \o model_name) EXCEPT !.text = text]

\* a Gemini relay that sends the terminal chunk and [DONE] of a STOP event
\* ahead of the event's text
GoogleYield_StopFirst(model_name, i, kind) ==
    IF kind \in {"blank", "bad"} \/ ~GoogleEvent(kind).candidates THEN <<>>
    ELSE (IF GoogleEvent(kind).finishReason = "STOP"
          THEN <<Event("chunk", i, FALSE, "stop", <<"google">> \o model_name),
                 DoneEvent(i)>>
          ELSE <<>>)
         \o (IF JoinParts(GoogleEvent(kind).parts) # <<>>
             THEN <<GoogleDelta(model_name, i, JoinParts(GoogleEvent(kind).parts))>>
             ELSE <<>>)

\* GoogleAdapter.chat_completion_stream: the yields for one upstream line
GoogleYield(model_name, i, kind) ==
    IF kind \in {"blank", "bad"} \/ ~GoogleEvent(kind).candidates THEN <<>>
    ELSE (IF JoinParts(GoogleEvent(kind).parts) # <<>>
          THEN <<GoogleDelta(model_name, i, JoinParts(GoogleEvent(kind).parts))>>
          ELSE <<>>)
         \o (IF GoogleEvent(kind).finishReason = "STOP"
             THEN <<Event("chunk", i, FALSE, "stop", <<"google">> \o model_name),
                    DoneEvent(i)>>
             ELSE <<>>)

\* Adapter.chat_completion_stream, one iteration of `async for line`
AdapterYield(adapter, model_name, i, kind) ==
    CASE adapter = "anthropic" -> AnthropicYield(model_name, i, kind)
      [] adapter = "google" -> GoogleYield(model_name, i, kind)
      [] OTHER -> PassthroughYield(adapter, model_name, i, kind)

\* the adapter leaves its read loop after this line (`break`)
AdapterBreaks(adapter, kind) ==
    adapter \in {"openai", "groq", "deepseek"} /\ kind = "done"

\* generate() is first iterated: the adapter resolves the key and opens the
\* upstream stream
StreamStart ==
    /\ pc = "stream_start"
    /\ LET key == _resolve_key(gen.provider, gen.api_key)
       IN IF key = NoKey
          THEN \* ValueError, caught by generate()'s `except Exception`
               /\ sse' = Append(sse, ErrorEvent)
               /\ log' = Append(log, LogRecord("Stream error", {}))
               /\ pc' = "done"
               /\ UNCHANGED dispatches
          ELSE /\ dispatches' = Append(dispatches,
                     Dispatch(model_id, gen.provider, key, "stream"))
               /\ pc' = "stream_open"
               /\ UNCHANGED <<sse, log>>
    /\ UNCHANGED <<adapterCall, priceCall, routed,
                   serverKeys, registered, sideVars, difficultyRouting, fallbackChains, stats,
                   headers, req, user_keys, model_id, chain, walk, reply, gen, upstream>>

\* the upstream answers the stream request: resp.raise_for_status()
StreamStatus ==
    /\ pc = "stream_open"
    /\ \E outcome \in Outcomes \ {"bad_json"} :
        /\ dispatches' = Settle(dispatches, outcome)
        /\ IF outcome = "ok"
           THEN pc' = "stream_read" /\ UNCHANGED <<sse, log>>
           ELSE /\ pc' = "done"
                /\ sse' = Append(sse, ErrorEvent)
                /\ log' = Append(log, LogRecord("Stream error",
                             ErrorSecrets(Settle(dispatches, outcome)[Len(dispatches)])))
    /\ UNCHANGED <<adapterCall, priceCall, routed,
                   serverKeys, registered, sideVars, difficultyRouting, fallbackChains, stats,
                   headers, req, user_keys, model_id, chain, walk, reply, gen, upstream>>

\* a relay that puts the newest yields in front of the ones already sent
StreamLine_Prepend ==
    /\ pc = "stream_read"
    /\ Len(upstream) < MaxStreamLines
    /\ \E kind \in LineKinds(gen.provider) :
        /\ upstream' = Append(upstream, kind)
        /\ sse' = AdapterYield(gen.provider, gen.model, Len(upstream) + 1, kind) \o sse
        /\ pc' = IF AdapterBreaks(gen.provider, kind) THEN "done" ELSE "stream_read"
    /\ UNCHANGED <<adapterCall, priceCall, routed,
                   serverKeys, registered, log, sideVars, difficultyRouting, fallbackChains, stats,
                   headers, req, user_keys, model_id, chain, walk, dispatches, reply, gen>>

\* the upstream sends one more line; the adapter's yields are relayed by
\* generate() in the order yielded
StreamLine ==
    /\ pc = "stream_read"
    /\ Len(upstream) < MaxStreamLines
    /\ \E kind \in LineKinds(gen.provider) :
        /\ upstream' = Append(upstream, kind)
        /\ sse' = sse \o AdapterYield(gen.provider, gen.model, Len(upstream) + 1, kind)
        /\ pc' = IF AdapterBreaks(gen.provider, kind) THEN "done" ELSE "stream_read"
    /\ UNCHANGED <<adapterCall, priceCall, routed,
                   serverKeys, registered, log, sideVars, difficultyRouting, fallbackChains, stats,
                   headers, req, user_keys, model_id, chain, walk, dispatches, reply, gen>>

\* the upstream closes the body: aiter_lines() is exhausted, the generators end
StreamEof ==
    /\ pc = "stream_read"
    /\ pc' = "done"
    /\ UNCHANGED <<adapterCall, priceCall, routed,
                   serverKeys, registered, log, sideVars, difficultyRouting, fallbackChains, stats,
                   headers, req, user_keys, model_id, chain, walk, dispatches, reply, gen,
                   upstream, sse>>

\* a relay that answers a failed read by opening the upstream stream again
StreamReadError_Retry ==
    /\ pc = "stream_read"
    /\ pc' = "stream_open"
    /\ dispatches' = Append(Settle(dispatches, "read_error"),
                            Dispatch(model_id, gen.provider, gen.api_key, "stream"))
    /\ UNCHANGED <<adapterCall, priceCall, routed,
                   serverKeys, registered, log, sideVars, difficultyRouting, fallbackChains, stats,
                   headers, req, user_keys, model_id, chain, walk, reply, gen, upstream,
                   sse>>

\* a read of the body fails (network error, read timeout): the exception
\* reaches generate()
StreamReadError ==
    /\ pc = "stream_read"
    /\ pc' = "done"
    /\ dispatches' = Settle(dispatches, "read_error")
    /\ sse' = Append(sse, ErrorEvent)
    /\ log' = Append(log, LogRecord("Stream error", {}))
    /\ UNCHANGED <<adapterCall, priceCall, routed,
                   serverKeys, registered, sideVars, difficultyRouting, fallbackChains, stats,
                   headers, req, user_keys, model_id, chain, walk, reply, gen, upstream>>

\* a relay that treats the cancellation like any exception of the adapter:
\* the error event is written to the stream
ClientDisconnect_AsError ==
    /\ pc \in {"stream_start", "stream_open", "stream_read"}
    /\ pc' = "cancelled"
    /\ dispatches' = IF dispatches = <<>> THEN dispatches
                     ELSE Settle(dispatches, "cancelled")
    /\ sse' = Append(sse, ErrorEvent)
    /\ UNCHANGED <<adapterCall, priceCall, routed,
                   serverKeys, registered, log, sideVars, difficultyRouting, fallbackChains, stats,
                   headers, req, user_keys, model_id, chain, walk, reply, gen, upstream>>

\* the caller goes away while the response body is being produced: the task
\* is cancelled (CancelledError at the pending await, GeneratorExit at the
\* pending yield); neither is an Exception, so generate() unwinds without a
\* yield, and leaving the adapter's `async with` closes the upstream response
ClientDisconnect ==
    /\ pc \in {"stream_start", "stream_open", "stream_read"}
    /\ pc' = "cancelled"
    /\ dispatches' = IF dispatches = <<>> THEN dispatches
                     ELSE Settle(dispatches, "cancelled")
    /\ UNCHANGED <<adapterCall, priceCall, routed,
                   serverKeys, registered, log, sideVars, difficultyRouting, fallbackChains, stats,
                   headers, req, user_keys, model_id, chain, walk, reply, gen, upstream,
                   sse>>

Next ==
    \/ ChatCompletions
    \/ PrimaryReturns
    \/ FallbackReturns
    \/ StreamStart
    \/ StreamStatus
    \/ StreamLine
    \/ StreamEof
    \/ StreamReadError
    \/ ClientDisconnect

Spec == Init /\ [][Next]_vars

\* every upstream call returns or raises: the adapters' clients carry
\* httpx.Timeout(settings.request_timeout, read=settings.stream_timeout)
SpecFair == Spec /\ WF_vars(PrimaryReturns) /\ WF_vars(FallbackReturns)

\* the routing service: /v1/route calls with any prefer, and an auto-routed
\* chat request, in a deployment that holds every provider's key
RouteInit == Init /\ serverKeys = Providers

NextRoute ==
    \/ RouteRecommendation
    \/ AutoChat

SpecRoute == RouteInit /\ [][NextRoute]_vars

\* ------------------------------------------- the adapters, called directly
\* the usage figures of an upstream body: also a total that is not the sum of
\* the two counts, and a body whose usage has no total
AdapterUsages ==
    UpstreamUsages \cup
    { [prompt_tokens |-> 1000, completion_tokens |-> 500, total_tokens |-> 1600],
      [prompt_tokens |-> 1000, completion_tokens |-> 500, total_tokens |-> 0] }

\* provider.chat_completion(messages, model_name) as chat_completions calls it
\* for model id `id`, with a key at hand and an upstream that answers 200
AdapterCompletion ==
    /\ pc = "idle"
    /\ \E id \in AdapterCallIds, msgs \in AdapterMessageLists, u \in AdapterUsages :
        /\ get_provider(registered, id) # ""
        /\ adapterCall' =
              [id |-> id, provider |-> get_provider(registered, id),
               model |-> resolve_model(id)[2], messages |-> msgs, stream |-> FALSE,
               payload |-> AdapterPayload(get_provider(registered, id), msgs,
                                          resolve_model(id)[2]),
               response |-> AdapterResponse(get_provider(registered, id),
                                            resolve_model(id)[2], u),
               line |-> "", yielded |-> <<>>]
    /\ UNCHANGED <<priceCall, routed, serverKeys, registered, log, sideVars, difficultyRouting,
                   fallbackChains, stats, pc, headers, req, user_keys, model_id, chain,
                   walk, dispatches, reply, gen, upstream, sse>>

\* provider.chat_completion_stream(messages, model_name): the request sent and
\* what the first upstream line makes the adapter yield
AdapterStream ==
    /\ pc = "idle"
    /\ \E id \in AdapterCallIds, msgs \in AdapterMessageLists :
        /\ get_provider(registered, id) # ""
        /\ \E kind \in LineKinds(get_provider(registered, id)) :
            adapterCall' =
              [id |-> id, provider |-> get_provider(registered, id),
               model |-> resolve_model(id)[2], messages |-> msgs, stream |-> TRUE,
               payload |-> AdapterPayload(get_provider(registered, id), msgs,
                                          resolve_model(id)[2]),
               response |-> NoReply, line |-> kind,
               yielded |-> AdapterYield(get_provider(registered, id),
                                        resolve_model(id)[2], 1, kind)]
    /\ UNCHANGED <<priceCall, routed, serverKeys, registered, log, sideVars, difficultyRouting,
                   fallbackChains, stats, pc, headers, req, user_keys, model_id, chain,
                   walk, dispatches, reply, gen, upstream, sse>>

NextAdapter ==
    \/ AdapterCompletion
    \/ AdapterStream

\* the adapters on their own, in a deployment that holds every provider's key
SpecAdapter == RouteInit /\ [][NextAdapter]_vars

\* ----------------------------------------- the registry, called directly
\* token counts of a call: none, one, the router's defaults, a long exchange
TokenCounts == {0, 1, 500, 1000, 100000}

\* budgets in units of 1e-8 USD: nothing, $0.0001, the $0.00036 that
\* groq/mixtral-8x7b costs at the default counts, $0.001, $1
PriceCaps == {0, 10000, 36000, 100000, 100000000}

\* registry.estimate_cost(model_id, input_tokens, output_tokens)
EstimateCost ==
    /\ pc = "idle"
    /\ \E id \in CatalogIds \cup {<<"foo", "bar">>}, i \in TokenCounts, o \in TokenCounts :
        priceCall' = [op |-> "estimate_cost", model_id |-> id, budget |-> NoCap,
                      input_tokens |-> i, output_tokens |-> o,
                      cost |-> estimate_cost(id, i, o), ids |-> <<>>]
    /\ UNCHANGED <<adapterCall, routed, serverKeys, registered, log, sideVars, difficultyRouting,
                   fallbackChains, stats, pc, headers, req, user_keys, model_id, chain,
                   walk, dispatches, reply, gen, upstream, sse>>

\* registry.select_by_budget(budget_usd, input_tokens, output_tokens)
SelectByBudget ==
    /\ pc = "idle"
    /\ \E cap \in PriceCaps, i \in TokenCounts, o \in TokenCounts :
        priceCall' = [op |-> "select_by_budget", model_id |-> NoModel, budget |-> cap,
                      input_tokens |-> i, output_tokens |-> o, cost |-> 0,
                      ids |-> select_by_budget(cap, i, o)]
    /\ UNCHANGED <<adapterCall, routed, serverKeys, registered, log, sideVars, difficultyRouting,
                   fallbackChains, stats, pc, headers, req, user_keys, model_id, chain,
                   walk, dispatches, reply, gen, upstream, sse>>

NextPricing ==
    \/ EstimateCost
    \/ SelectByBudget

\* the registry's pricing functions on their own
SpecPricing == RouteInit /\ [][NextPricing]_vars

\* -------------------------------------------- the authentication middleware
\* the paths authenticate lets through without a credential
IsPublicPath(path) ==
    \/ path \in { <<"health">>, <<"docs">>, <<"openapi.json">>, <<"redoc">> }
    \/ path[1] = "dashboard"
    \/ Len(path) > 2 /\ path[1] = "v1" /\ path[2] = "auth" /\ path # <<"v1", "auth", "me">>

\* the token authenticate reads from the headers
ExtractToken(request) ==
    IF request.authorization.scheme = "Bearer" THEN request.authorization.token
    ELSE request.x_api_key

\* auth.decode_token: the payload's sub, "" for a payload without one, and
\* None (Absent) for an expired or otherwise invalid token
decode_token(token) ==
    CASE token.jwt = "valid" -> <<"alice">>
      [] token.jwt = "nosub" -> <<"">>
      [] OTHER -> Absent

\* db.get_user_by_api_key: the rows with that key and is_active = 1
get_user_by_api_key(api_key) ==
    {u \in USERS : u.api_key = api_key /\ u.is_active}

Passed(user_id) == [status |-> 200, handler_ran |-> TRUE, user_id |-> user_id]

Rejected == [status |-> 401, handler_ran |-> FALSE, user_id |-> ""]

\* a middleware that tries the configured keys before the tr- lookup
authenticate_LegacyFirst(api_keys, request) ==
    IF IsPublicPath(request.path) THEN Passed("")
    ELSE IF /\ ExtractToken(request) # NoToken
            /\ ~ExtractToken(request).tr
            /\ decode_token(ExtractToken(request)) # Absent
            /\ decode_token(ExtractToken(request))[1] # ""
    THEN Passed(decode_token(ExtractToken(request))[1])
    ELSE IF ExtractToken(request) # NoToken /\ ExtractToken(request).text \in api_keys
    THEN Passed("__admin__")
    ELSE IF ExtractToken(request) # NoToken /\ ExtractToken(request).tr
    THEN IF get_user_by_api_key(ExtractToken(request).text) # {}
         THEN Passed((CHOOSE u \in get_user_by_api_key(ExtractToken(request).text) :
                         TRUE).id)
         ELSE Rejected
    ELSE IF api_keys = {} THEN Passed("__anonymous__")
    ELSE Rejected

\* main.authenticate: whether call_next runs, and with which user id
authenticate(api_keys, request) ==
    IF IsPublicPath(request.path) THEN Passed("")
    ELSE IF /\ ExtractToken(request) # NoToken
            /\ ~ExtractToken(request).tr
            /\ decode_token(ExtractToken(request)) # Absent
            /\ decode_token(ExtractToken(request))[1] # ""
    THEN Passed(decode_token(ExtractToken(request))[1])
    ELSE IF ExtractToken(request) # NoToken /\ ExtractToken(request).tr
    THEN IF get_user_by_api_key(ExtractToken(request).text) # {}
         THEN Passed((CHOOSE u \in get_user_by_api_key(ExtractToken(request).text) :
                         TRUE).id)
         ELSE Rejected
    ELSE IF ExtractToken(request) # NoToken /\ ExtractToken(request).text \in api_keys
    THEN Passed("__admin__")
    ELSE IF api_keys = {} THEN Passed("__anonymous__")
    ELSE Rejected

\* one request passes through the middleware
Authenticate ==
    /\ pc = "idle"
    /\ \E request \in AuthRequests :
        auth' = [api_keys |-> auth.api_keys, calls |-> 1, request |-> request,
                 status |-> authenticate(auth.api_keys, request).status,
                 handler_ran |-> authenticate(auth.api_keys, request).handler_ran,
                 user_id |-> authenticate(auth.api_keys, request).user_id]
    /\ UNCHANGED <<gatewayVars, store, limiter, cache>>

NextAuth == Authenticate

\* the components before their first call: a deployment with any of the
\* api_keys settings, its stats loaded empty or with a full request log
ComponentInit ==
    /\ GatewayInit
    /\ serverKeys = Providers
    /\ auth \in {[NoAuth EXCEPT !.api_keys = c] : c \in ApiKeyConfigs}
    /\ store \in {LoadedStore(0), LoadedStore(MaxLogEntries)}
    /\ limiter = NewRateLimiter
    /\ cache = NewCacheManager

SpecAuth == ComponentInit /\ [][NextAuth]_vars

\* ------------------------------------------------------------- stats_store
\* a thread entering `with _lock` without waiting for the lock
LockFree_Always(lock) == TRUE

\* threading.Lock: acquire() goes through only while nobody holds the lock
LockFree(lock) == lock = 0

\* record_request is called: the entry is built, with time.time() as its ts
RecordCall(t) ==
    /\ store.thread[t].pc = "idle"
    /\ store.calls < MaxRecordCalls
    /\ \E input \in RecordInputs :
        store' = [store EXCEPT !.calls = @ + 1, !.clock = @ + 1,
                               !.thread[t].pc = "entry",
                               !.thread[t].entry = LogEntry(store.clock, input)]
    /\ UNCHANGED <<gatewayVars, auth, limiter, cache>>

\* with _lock: __enter__
RecordEnter(t) ==
    /\ store.thread[t].pc = "entry"
    /\ LockFree(store.lock)
    /\ store' = [store EXCEPT !.lock = t, !.thread[t].pc = "locked"]
    /\ UNCHANGED <<gatewayVars, auth, limiter, cache>>

\* the loads of the `+= 1` statements on the three counters
RecordRead(t) ==
    /\ store.thread[t].pc = "locked"
    /\ store' = [store EXCEPT
          !.thread[t].pc = "loaded",
          !.thread[t].seen =
              [total |-> store.total_requests,
               provider |-> store.requests_by_provider[store.thread[t].entry.provider],
               model |-> store.requests_by_model[store.thread[t].entry.model]]]
    /\ UNCHANGED <<gatewayVars, auth, limiter, cache>>

\* the stores of the `+= 1` statements, then the log: append, pop(0) when the
\* log is over MAX_LOG_ENTRIES, _append_log, and _flush every _FLUSH_EVERY calls
RecordWrite(t) ==
    /\ store.thread[t].pc = "loaded"
    /\ store' = [store EXCEPT
          !.thread[t].pc = "stored",
          !.total_requests = store.thread[t].seen.total + 1,
          !.requests_by_provider[store.thread[t].entry.provider] =
              store.thread[t].seen.provider + 1,
          !.requests_by_model[store.thread[t].entry.model] =
              store.thread[t].seen.model + 1,
          !.request_log =
              IF Len(store.request_log) + 1 > MaxLogEntries
              THEN Tail(Append(store.request_log, store.thread[t].entry))
              ELSE Append(store.request_log, store.thread[t].entry),
          !.written = Append(@, store.thread[t].entry),
          !.log_file = @ + 1,
          !.since_last_flush = IF @ + 1 >= 5 THEN 0 ELSE @ + 1,
          !.stats_file = IF store.since_last_flush + 1 >= 5
                         THEN store.thread[t].seen.total + 1 ELSE @]
    /\ UNCHANGED <<gatewayVars, auth, limiter, cache>>

\* with _lock: __exit__
RecordExit(t) ==
    /\ store.thread[t].pc = "stored"
    /\ store' = [store EXCEPT !.lock = IF @ = t THEN 0 ELSE @,
                               !.thread[t].pc = "idle"]
    /\ UNCHANGED <<gatewayVars, auth, limiter, cache>>

NextStats ==
    \/ \E t \in DOMAIN store.thread : RecordCall(t)
    \/ \E t \in DOMAIN store.thread : RecordEnter(t)
    \/ \E t \in DOMAIN store.thread : RecordRead(t)
    \/ \E t \in DOMAIN store.thread : RecordWrite(t)
    \/ \E t \in DOMAIN store.thread : RecordExit(t)

SpecStats == ComponentInit /\ [][NextStats]_vars

\* ------------------------------------------------------------ rate limiter
\* RateLimiter._clean_window: pops the front while it is older than cutoff
RECURSIVE _clean_window(_, _)
_clean_window(window, cutoff) ==
    IF window # <<>> /\ Head(window) < cutoff
    THEN _clean_window(Tail(window), cutoff)
    ELSE window

\* time passes: time.time() moves on to one of these seconds
Tick ==
    /\ \E i \in {0, 1, 59, 60, 62, 121} :
        /\ i > limiter.clock
        /\ limiter' = [limiter EXCEPT !.clock = i]
    /\ UNCHANGED <<gatewayVars, auth, store, cache>>

\* check_rpm(key_hash) is called: now = time.time()
CheckCall(t) ==
    /\ limiter.thread[t].pc = "idle"
    /\ limiter.calls < MaxCheckCalls
    /\ \E k \in DOMAIN limiter.request_windows :
        limiter' = [limiter EXCEPT !.calls = @ + 1,
                                  !.thread[t] = [pc |-> "called", key_hash |-> k,
                                                 now |-> limiter.clock,
                                                 allowed |-> FALSE]]
    /\ UNCHANGED <<gatewayVars, auth, store, cache>>

\* with self._lock: __enter__
CheckEnter(t) ==
    /\ limiter.thread[t].pc = "called"
    /\ limiter.lock = 0
    /\ limiter' = [limiter EXCEPT !.lock = t, !.thread[t].pc = "locked"]
    /\ UNCHANGED <<gatewayVars, auth, store, cache>>

\* the body of the with block and its exit: the window is cleaned, the call
\* is refused when the window is full, else its now is appended
CheckBody(t) ==
    /\ limiter.thread[t].pc = "locked"
    /\ LET k == limiter.thread[t].key_hash
           now == limiter.thread[t].now
           window == _clean_window(limiter.request_windows[k], now - WindowSeconds)
       IN IF Len(window) >= MaxRpm
          THEN limiter' = [limiter EXCEPT !.request_windows[k] = window,
                                         !.lock = 0,
                                         !.thread[t].pc = "idle",
                                         !.thread[t].allowed = FALSE]
          ELSE limiter' = [limiter EXCEPT !.request_windows[k] = Append(window, now),
                                         !.admitted[k] = Append(@, now),
                                         !.lock = 0,
                                         !.thread[t].pc = "idle",
                                         !.thread[t].allowed = TRUE]
    /\ UNCHANGED <<gatewayVars, auth, store, cache>>

NextLimiter ==
    \/ Tick
    \/ \E t \in DOMAIN limiter.thread : CheckCall(t)
    \/ \E t \in DOMAIN limiter.thread : CheckEnter(t)
    \/ \E t \in DOMAIN limiter.thread : CheckBody(t)

SpecLimiter == RouteInit /\ [][NextLimiter]_vars

\* ----------------------------------------------------------- cache manager
\* json.loads(json.dumps(value)): Absent when dumps raises TypeError (a set);
\* a tuple comes back as a list
json_roundtrip(value) ==
    CASE value.type = "set" -> Absent
      [] value.type = "tuple" -> <<[type |-> "list", val |-> value.val]>>
      [] OTHER -> <<value>>

\* _load_disk_cache_to_memory: the map the file's lines give, a later line
\* overriding an earlier one
RECURSIVE Replay(_)
Replay(lines) ==
    IF lines = <<>> THEN <<>>
    ELSE (lines[Len(lines)].k :> lines[Len(lines)].v)
         @@ Replay(SubSeq(lines, 1, Len(lines) - 1))

\* the keys of the lines in the order of their first occurrence (the order
\* of compact's dict)
RECURSIVE FirstKeys(_)
FirstKeys(lines) ==
    IF lines = <<>> THEN <<>>
    ELSE LET before == FirstKeys(SubSeq(lines, 1, Len(lines) - 1))
         IN IF \E i \in 1..Len(before) : before[i] = lines[Len(lines)].k
            THEN before
            ELSE Append(before, lines[Len(lines)].k)

\* set(key, value, namespace): memory is written; the line is appended unless
\* json.dumps fails, which _append_to_disk_cache logs and swallows
CacheSet(t) ==
    /\ cache.thread[t].pc = "idle"
    /\ cache.calls < MaxCacheCalls
    /\ \E pair \in CachePairs, value \in CacheValues :
        cache' = [cache EXCEPT
            !.calls = @ + 1,
            !.memory_cache = ((pair[1] \o pair[2]) :> value) @@ @,
            !.exists = @ \/ json_roundtrip(value) # Absent,
            !.lines = IF json_roundtrip(value) = Absent THEN @
                      ELSE Append(@, [k |-> pair[1] \o pair[2],
                                      v |-> json_roundtrip(value)[1]]),
            !.written[pair] = <<[value |-> value, by |-> t]>>,
            !.thread[t] = [pc |-> "idle", seen |-> 0, pair |-> <<>>, got |-> <<>>]]
    /\ UNCHANGED <<gatewayVars, auth, store, limiter>>

\* get(key, namespace), the part under the lock: a hit is counted and
\* returned; after a miss the lock is released with nothing counted yet
CacheGet(t) ==
    /\ cache.thread[t].pc = "idle"
    /\ cache.calls < MaxCacheCalls
    /\ \E pair \in CachePairs :
        IF (pair[1] \o pair[2]) \in DOMAIN cache.memory_cache
        THEN cache' = [cache EXCEPT
                 !.calls = @ + 1, !.hits = @ + 1, !.found = @ + 1,
                 !.thread[t] = [pc |-> "idle", seen |-> 0, pair |-> pair,
                                got |-> <<cache.memory_cache[pair[1] \o pair[2]]>>]]
        ELSE cache' = [cache EXCEPT
                 !.calls = @ + 1, !.missed = @ + 1,
                 !.thread[t] = [pc |-> "missed", seen |-> 0, pair |-> pair,
                                got |-> <<>>]]
    /\ UNCHANGED <<gatewayVars, auth, store, limiter>>

\* self._misses += 1, outside the lock: the load
MissLoad(t) ==
    /\ cache.thread[t].pc = "missed"
    /\ cache' = [cache EXCEPT !.thread[t].pc = "loaded",
                              !.thread[t].seen = cache.misses]
    /\ UNCHANGED <<gatewayVars, auth, store, limiter>>

\* self._misses += 1, outside the lock: the store; get returns None
MissStore(t) ==
    /\ cache.thread[t].pc = "loaded"
    /\ cache' = [cache EXCEPT !.thread[t].pc = "idle",
                              !.misses = cache.thread[t].seen + 1]
    /\ UNCHANGED <<gatewayVars, auth, store, limiter>>

\* compact(): the file is rewritten with one line per key, the latest value
CacheCompact ==
    /\ cache.calls < MaxCacheCalls
    /\ cache.exists
    /\ cache' = [cache EXCEPT
          !.calls = @ + 1,
          !.compacted = TRUE,
          !.lines = [i \in 1..Len(FirstKeys(cache.lines)) |->
                        [k |-> FirstKeys(cache.lines)[i],
                         v |-> Replay(cache.lines)[FirstKeys(cache.lines)[i]]]]]
    /\ UNCHANGED <<gatewayVars, auth, store, limiter>>

\* clear_cache(memory, disk)
ClearCache ==
    /\ cache.calls < MaxCacheCalls
    /\ \E memory \in BOOLEAN, disk \in BOOLEAN :
        cache' = [cache EXCEPT
            !.calls = @ + 1,
            !.cleared = @ \/ memory \/ disk,
            !.memory_cache = IF memory THEN <<>> ELSE @,
            !.hits = IF memory THEN 0 ELSE @,
            !.misses = IF memory THEN 0 ELSE @,
            !.exists = IF disk THEN FALSE ELSE @,
            !.lines = IF disk THEN <<>> ELSE @]
    /\ UNCHANGED <<gatewayVars, auth, store, limiter>>

NextCache ==
    \/ \E t \in DOMAIN cache.thread : CacheSet(t)
    \/ \E t \in DOMAIN cache.thread : CacheGet(t)
    \/ \E t \in DOMAIN cache.thread : MissLoad(t)
    \/ \E t \in DOMAIN cache.thread : MissStore(t)
    \/ CacheCompact
    \/ ClearCache

SpecCache == RouteInit /\ [][NextCache]_vars

\* ------------------------------------------------------------------ claims
\* the BYOK header of a provider (X-OpenAI-Key, X-Anthropic-Key, X-Groq-Key,
\* X-Google-Key, X-DeepSeek-Key)
ByokHeader(p) ==
    CASE p = "openai" -> "x-openai-key"
      [] p = "anthropic" -> "x-anthropic-key"
      [] p = "groq" -> "x-groq-key"
      [] p = "google" -> "x-google-key"
      [] p = "deepseek" -> "x-deepseek-key"
      [] OTHER -> ""

IsPrefix(a, b) == Len(a) <= Len(b) /\ a = SubSeq(b, 1, Len(a))

IsFallback(d) == d.phase = "fallback"

\* the upstream calls of the fallback walk, in the order made
FallbackDispatches == SelectSeq(dispatches, IsFallback)

ModelsOf(ds) == [i \in 1..Len(ds) |-> ds[i].model]

\* the request in progress made a primary non-streaming dispatch
PrimaryDispatched == dispatches # <<>> /\ dispatches[1].phase = "primary"

\* the fallback chain of the routing decision for the request in progress
DecisionChain ==
    route(difficultyRouting, fallbackChains, req.messages, req.budget_cap, "none",
          req.detected).fallback_chain

\* a key is resolvable for the model's provider: header or server default
KeyResolvable(m) == ByokHeader(m[1]) \in headers \/ m[1] \in serverKeys

IsCandidate(m) == m # dispatches[1].model /\ KeyResolvable(m)

\* the chain's candidates in chain order: not the failed model, key resolvable
Candidates == SelectSeq(DecisionChain, IsCandidate)

LastOf(ds) == ds[Len(ds)]

C2_NonRetryableSurfaced ==
    (PrimaryDispatched /\ dispatches[1].outcome = "http_400") =>
        FallbackDispatches = <<>>

\* the request in progress is a streaming one (generate() exists)
Streaming == gen # NoGen

\* the stream's upstream call failed: no key, an error status, a failed read
StreamFailed ==
    \/ pc = "done" /\ dispatches = <<>>
    \/ dispatches # <<>> /\ dispatches[1].outcome \in {"http_503", "http_400", "read_error"}

\* C3: a streaming request makes at most one upstream dispatch (no retry, no
\* fallback); an error raised while relaying is delivered on the same 200
\* event stream as a stream_error event, which is the last event of the stream.
C3_StreamNeverRetries ==
    Streaming =>
        /\ Len(dispatches) <= 1
        /\ \A i \in 1..Len(dispatches) : dispatches[i].phase = "stream"
        /\ chain = <<>>
        /\ reply.status = 200
        /\ \A i \in 1..Len(sse) : sse[i].type = "stream_error" => i = Len(sse)
        /\ StreamFailed =>
              /\ pc = "done"
              /\ sse # <<>>
              /\ LastOf(sse).type = "stream_error"

\* C3 witness: chunks were relayed, then a read failed and the error event
\* closed the stream
C3_Witness ==
    /\ Streaming
    /\ pc = "done"
    /\ dispatches # <<>>
    /\ dispatches[1].outcome = "read_error"
    /\ Len(sse) >= 3
    /\ sse[1].type = "chunk"
    /\ LastOf(sse).type = "stream_error"

\* the upstream line kinds that carry one chunk for the client
ChunkKinds == {"chunk", "final", "delta", "text", "text_stop", "text_max"}

\* the events relayed from upstream line i
EventsFrom(i) == SelectSeq(sse, LAMBDA e : e.src = i)

IsContent(e) == e.type = "chunk" /\ e.content

\* C4: the events relayed on a stream follow the upstream line order; every
\* upstream line that carries a chunk gives exactly one content or finish
\* chunk, never two and never out of place, with the adapter's terminal chunk
\* and [DONE] after the content of the same line; an OpenAI-compatible upstream
\* sending c1, c2, c3, [DONE] is relayed as c1, c2, c3, [DONE].
C4_StreamOrder ==
    Streaming =>
        /\ \A i, j \in 1..Len(sse) :
              (i < j /\ sse[j].type # "stream_error") =>
                  /\ sse[i].src <= sse[j].src
                  /\ sse[i].src = sse[j].src =>
                        /\ sse[i].type = "chunk"
                        /\ IsContent(sse[i]) \/ sse[j].type = "done"
                        /\ ~IsContent(sse[j])
        /\ \A e \in Range(sse) : e.type # "stream_error" => e.src \in 1..Len(upstream)
        /\ \A i \in 1..Len(upstream) :
              /\ Len(SelectSeq(EventsFrom(i), IsContent)) =
                    (IF upstream[i] \in ChunkKinds \ {"final"} THEN 1 ELSE 0)
              /\ upstream[i] = "final" =>
                    /\ Len(EventsFrom(i)) = 1
                    /\ EventsFrom(i)[1].finish_reason = "stop"
              /\ upstream[i] = "done" => EventsFrom(i) = <<DoneEvent(i)>>
        /\ upstream = <<"chunk", "chunk", "chunk", "done">> =>
              [k \in 1..Len(sse) |-> <<sse[k].type, sse[k].src>>] =
                  << <<"chunk", 1>>, <<"chunk", 2>>, <<"chunk", 3>>, <<"done", 4>> >>

\* C4 witness: an OpenAI-compatible stream c1, c2, c3, [DONE] relayed in full
C4_Witness ==
    /\ Streaming
    /\ gen.provider \in {"openai", "groq", "deepseek"}
    /\ upstream = <<"chunk", "chunk", "chunk", "done">>
    /\ Len(sse) = 4
    /\ pc = "done"

\* the events of a reply end with a finish chunk followed by [DONE]
EndsWithFinishAndDone(events) ==
    /\ Len(events) >= 2
    /\ events[Len(events)].type = "done"
    /\ events[Len(events) - 1].type = "chunk"
    /\ events[Len(events) - 1].finish_reason # ""

\* C5: a finished streaming reply ends with a chunk carrying a finish_reason
\* followed by [DONE], or with an error event.
C5_StreamTerminated ==
    (Streaming /\ pc = "done") =>
        \/ EndsWithFinishAndDone(sse)
        \/ sse # <<>> /\ LastOf(sse).type = "stream_error"

\* C6: nothing is emitted to the client for an upstream data line whose
\* payload is not valid JSON.
C6_MalformedLineSkipped ==
    Streaming =>
        \A i \in 1..Len(upstream) : upstream[i] = "bad" => EventsFrom(i) = <<>>

\* the credential the caller and the deployment provide for provider p
ExpectedKey(p) ==
    IF ByokHeader(p) \in headers THEN HeaderSecret(ByokHeader(p))
    ELSE IF p \in serverKeys THEN ServerSecret(p)
    ELSE NoKey

\* C7: every upstream call, primary, fallback or streaming, goes through the
\* adapter of the model's provider and carries the caller's header key for that
\* provider when the header is present, else the server default key of that
\* provider.
C7_KeyOfTargetProvider ==
    \A i \in 1..Len(dispatches) :
        /\ dispatches[i].provider = dispatches[i].model[1]
        /\ dispatches[i].key # NoKey
        /\ dispatches[i].key = ExpectedKey(dispatches[i].model[1])

\* C7 witness: one request whose primary call used a server default key and
\* whose fallback call used the caller's header key of another provider
C7_Witness ==
    /\ Len(dispatches) >= 2
    /\ dispatches[1].key.source = "server"
    /\ dispatches[2].key.source = "header"
    /\ dispatches[2].provider # dispatches[1].provider

\* the model chosen for dispatch names a registered provider
ValidTarget == Len(model_id) > 1 /\ model_id[1] \in Providers

\* C8: a request, streaming or not, whose target provider has neither a BYOK
\* header nor a server default key ends with HTTP 401 authentication_error and
\* without any upstream call.
C8_AuthFailsFast ==
    (pc = "done" /\ ValidTarget /\ ~KeyResolvable(model_id)) =>
        /\ reply.status = 401
        /\ reply.type = "authentication_error"
        /\ dispatches = <<>>

\* C9: no upstream call is made for a request whose budget cap is below the
\* estimated cost of the model chosen for dispatch.
C9_BudgetCheckedBeforeDispatch ==
    (/\ req.budget_cap # NoCap
     /\ model_id \in CatalogIds
     /\ estimate_cost(model_id, EstInputTokens, EstOutputTokens) > req.budget_cap) =>
        dispatches = <<>>

\* C10: a request whose model id has no provider segment, or names a provider
\* without an adapter, is answered 400 invalid_request_error with no upstream
\* call and no fallback walk.
C10_InvalidModelRejected ==
    (model_id # NoModel /\ ~ValidTarget) =>
        /\ pc = "done"
        /\ reply.status = 400
        /\ reply.type = "invalid_request_error"
        /\ dispatches = <<>>
        /\ chain = <<>>
        /\ gen = NoGen

\* C10 witness: both kinds of invalid id were rejected: here the id without a
\* provider segment, on a streaming request with keys available
C10_Witness ==
    /\ model_id = <<"gpt-4o">>
    /\ serverKeys = Providers
    /\ req.stream
    /\ reply.status = 400

\* C11: when the primary call and every fallback candidate fail, the error the
\* caller receives with the 502 is the error of the last upstream call that
\* was attempted for the request.
C11_LastErrorSurfaced ==
    (pc = "done" /\ reply.status = 502 /\ dispatches # <<>>) =>
        /\ reply.error.model = LastOf(dispatches).model
        /\ reply.error.kind = LastOf(dispatches).outcome

\* the request in the handler's frame asked for smart routing
AutoRouted == req # NoReq /\ (req.auto_route \/ req.model = <<"auto">>)

\* the decision route() gives for the request in the handler's frame
ReqDecision ==
    route(difficultyRouting, fallbackChains, req.messages, req.budget_cap, "none",
          req.detected)

Routed == routed.calls > 0

\* the catalog models of the decision's difficulty bucket
RoutedBucket == Range(DIFFICULTY_ROUTING[routed.decision.difficulty])

\* the estimated cost of a catalog model for 1000 input and 500 output tokens
EstimatedCost(m) == estimate_cost(m, EstInputTokens, EstOutputTokens)

\* the catalog models whose estimated cost is within the cap
FitsCap(cap) == {m \in CatalogIds : EstimatedCost(m) <= cap}

\* s lists three distinct catalog models, none dearer than a model left out
IsCheapestThree(s) ==
    /\ Len(s) = 3
    /\ Cardinality(Range(s)) = 3
    /\ Range(s) \subseteq CatalogIds
    /\ \A m \in Range(s), o \in CatalogIds \ Range(s) :
           EstimatedCost(m) <= EstimatedCost(o)

\* C13: route() never returns an empty candidate list; when a budget cap is
\* set and no model of the difficulty bucket fits it, the candidates are the
\* three cheapest models of the whole catalog.
C13_NeverEmpty ==
    Routed =>
        /\ routed.decision.recommended_models # <<>>
        /\ (routed.budget_cap # NoCap /\ RoutedBucket \cap FitsCap(routed.budget_cap) = {})
              => IsCheapestThree(routed.decision.recommended_models)

\* C14: with a budget cap that at least one catalog model fits, every
\* candidate route() returns is a catalog model whose estimated cost is within
\* the cap, and so is the model an auto-routed chat request chooses and
\* dispatches first.
C14_WithinCap ==
    /\ (Routed /\ routed.budget_cap # NoCap /\ FitsCap(routed.budget_cap) # {}) =>
          Range(routed.decision.recommended_models) \subseteq FitsCap(routed.budget_cap)
    /\ (AutoRouted /\ req.budget_cap # NoCap /\ FitsCap(req.budget_cap) # {}) =>
          /\ model_id \in FitsCap(req.budget_cap)
          /\ PrimaryDispatched => dispatches[1].model \in FitsCap(req.budget_cap)

\* C14 witness: a capped /v1/route call left one candidate, and a capped
\* auto-routed complex request was dispatched to a model outside its bucket
C14_Witness ==
    /\ Routed
    /\ routed.budget_cap = 40000
    /\ routed.decision.recommended_models = << <<"groq", "mixtral-8x7b">> >>
    /\ AutoRouted
    /\ req.budget_cap = 100000
    /\ ReqDecision.difficulty = "complex"
    /\ PrimaryDispatched
    /\ dispatches[1].model = <<"google", "gemini-2.5-flash">>

\* this step is a /v1/route call with the same body and the same detector
\* answer as the call before it
RepeatedCall ==
    /\ routed.calls > 0
    /\ routed'.calls = routed.calls + 1
    /\ routed'.messages = routed.messages
    /\ routed'.budget_cap = routed.budget_cap
    /\ routed'.prefer = routed.prefer
    /\ routed'.detected = routed.detected

\* C15: a route() call that repeats the call before it (same messages,
\* budget_cap, prefer and detector answer) returns the same decision:
\* difficulty, intent, confidence, candidate order and fallback chain.
C15_RouteDeterministic ==
    [][RepeatedCall => routed'.decision = routed.decision]_vars

\* C15 witness: a call with a preference and no cap (the call that sorts the
\* difficulty table in place) was repeated, and answered a reordered bucket
C15_Witness ==
    /\ routed.calls = 2
    /\ routed.repeated
    /\ routed.prefer = "speed"
    /\ routed.budget_cap = NoCap
    /\ routed.decision.recommended_models # DIFFICULTY_ROUTING[routed.decision.difficulty]

\* C16: the routing tables never change after startup: the difficulty table
\* and the fallback-chain table keep their initial contents and order through
\* every /v1/route call and chat request (the model catalog is never assigned
\* to by any handler).
C16_TablesImmutable ==
    /\ difficultyRouting = DIFFICULTY_ROUTING
    /\ fallbackChains = FALLBACK_CHAINS

\* the chat request {model: "auto"} whose only message is the user text
\* "Summarize this article", with no budget cap, the detector's confidence
\* being below 0.6
SummarizeRequest ==
    /\ req # NoReq
    /\ req.model = <<"auto">>
    /\ req.messages = << Msg("user", "Summarize this article") >>
    /\ req.budget_cap = NoCap
    /\ RouteConfidence(req.detected) < ConfidenceThreshold

\* C17: without prefer and without budget_cap, route() returns the bucket of
\* the difficulty in the order of the static table, in every reachable state;
\* the request {model: "auto"} with the single user message "Summarize this
\* article" gets difficulty simple, the candidates groq/llama-3.3-70b,
\* deepseek/deepseek-v3, groq/mixtral-8x7b, and is dispatched to
\* groq/llama-3.3-70b.
C17_StaticOrderWithoutPrefer ==
    /\ (Routed /\ routed.prefer = "none" /\ routed.budget_cap = NoCap) =>
          routed.decision.recommended_models =
              DIFFICULTY_ROUTING[routed.decision.difficulty]
    /\ (AutoRouted /\ req.budget_cap = NoCap) =>
          ReqDecision.recommended_models = DIFFICULTY_ROUTING[ReqDecision.difficulty]
    /\ SummarizeRequest =>
          /\ ReqDecision.difficulty = "simple"
          /\ ReqDecision.recommended_models =
                << <<"groq", "llama-3.3-70b">>, <<"deepseek", "deepseek-v3">>,
                   <<"groq", "mixtral-8x7b">> >>
          /\ model_id = <<"groq", "llama-3.3-70b">>
          /\ PrimaryDispatched => dispatches[1].model = <<"groq", "llama-3.3-70b">>

\* the strategy as the claim words it: quality with complex, cost, the rest
ClaimedStrategy(prefer, difficulty) ==
    IF prefer = "quality" /\ difficulty = "complex" THEN "quality"
    ELSE IF prefer = "cost" THEN "economy"
    ELSE "balanced"

\* C18 as stated: the fallback chain of a decision is the "quality" chain for
\* prefer = quality with difficulty = complex, the "economy" chain for
\* prefer = cost, and the "balanced" chain for every other combination.
C18_StrategyAsClaimed ==
    Routed =>
        routed.decision.fallback_chain =
            FALLBACK_CHAINS[ClaimedStrategy(routed.prefer, routed.decision.difficulty)]

\* C18 amended: the fallback chain of a decision is the "economy" chain when
\* prefer is speed or cost; when prefer is quality or absent it is the
\* "quality" chain for difficulty complex and the "balanced" chain otherwise.
C18_StrategyFromPreferAndDifficulty ==
    Routed =>
        /\ routed.prefer \in {"speed", "cost"} =>
              routed.decision.fallback_chain = FALLBACK_CHAINS["economy"]
        /\ (routed.prefer \in {"quality", "none"}
            /\ routed.decision.difficulty = "complex") =>
              routed.decision.fallback_chain = FALLBACK_CHAINS["quality"]
        /\ (routed.prefer \in {"quality", "none"}
            /\ routed.decision.difficulty # "complex") =>
              routed.decision.fallback_chain = FALLBACK_CHAINS["balanced"]

\* C18 witness: a complex request routed without a preference got the
\* "quality" chain
C18_Witness ==
    /\ Routed
    /\ routed.prefer = "none"
    /\ routed.decision.difficulty = "complex"
    /\ routed.decision.fallback_chain = FALLBACK_CHAINS["quality"]

IsUserTurn(msg) == msg.role = "user"

\* the text of the most recent user-role message, "" when there is none
MostRecentUserText(messages) ==
    IF SelectSeq(messages, IsUserTurn) = <<>> THEN ""
    ELSE LastOf(SelectSeq(messages, IsUserTurn)).content

\* the difficulty the keywords occurring in the lower-cased text stand for
KeywordDifficulty(text) ==
    CASE \E kw \in COMPLEX_KEYWORDS : kw \in KeywordsIn(text) -> "complex"
      [] \E kw \in SIMPLE_KEYWORDS : kw \in KeywordsIn(text) -> "simple"
      [] OTHER -> "medium"

\* the static intent table's difficulty, medium for an intent outside it
TableDifficulty(intent) ==
    IF intent \in {"research", "analyze"} THEN "complex" ELSE "medium"

\* C19: when the detector answers with confidence at least 0.6 the difficulty
\* is the intent table's value for the detected intent (medium for an intent
\* the table lacks); with confidence below 0.6 it is decided by the keywords
\* in the lower-cased most recent user message alone: complex if a
\* COMPLEX_KEYWORDS entry occurs, else simple if a SIMPLE_KEYWORDS entry occurs,
\* else medium.
C19_DifficultyRule ==
    (Routed /\ routed.detected.ok) =>
        /\ routed.decision.intent = routed.detected.intent
        /\ routed.decision.confidence = routed.detected.confidence
        /\ routed.detected.confidence >= 60 =>
              routed.decision.difficulty = TableDifficulty(routed.detected.intent)
        /\ routed.detected.confidence < 60 =>
              routed.decision.difficulty =
                  KeywordDifficulty(MostRecentUserText(routed.messages))

\* C19 witness: intent analyze at confidence 0.59, an earlier user turn with
\* complex keywords and a most recent one with a simple keyword: simple
C19_Witness ==
    /\ Routed
    /\ routed.detected = Detection(TRUE, "analyze", 59)
    /\ Len(routed.messages) = 3
    /\ routed.messages[1] = Msg("user", "Design the system architecture")
    /\ routed.messages[3] = Msg("user", "Summarize this article")
    /\ routed.decision.difficulty = "simple"

\* C20: when the intent detector raises, route() still returns a decision:
\* intent "implement", confidence 0.5, the difficulty given by the keywords of
\* the most recent user message, candidates and a fallback chain; an
\* auto-routed chat request goes on to choose a model.
C20_DetectorFailureDefaults ==
    /\ (Routed /\ ~routed.detected.ok) =>
          /\ routed.decision.intent = "implement"
          /\ routed.decision.confidence = 50
          /\ routed.decision.difficulty =
                KeywordDifficulty(MostRecentUserText(routed.messages))
          /\ routed.decision.fallback_chain # <<>>
    /\ (AutoRouted /\ ~req.detected.ok) =>
          /\ model_id # NoModel
          /\ reply.status \notin {500, 502}

\* C20 witness: the detector raised on a text with complex keywords; the
\* decision is complex, where the table value for "implement" is medium
C20_Witness ==
    /\ Routed
    /\ ~routed.detected.ok
    /\ routed.decision.intent = "implement"
    /\ routed.decision.difficulty = "complex"
    /\ routed.decision.recommended_models # <<>>

\* ---------------------------------------------------- adapter translation
\* the positions of the system-role messages of a message array
SystemPositions(messages) ==
    {i \in 1..Len(messages) : messages[i].role = "system"}

\* the array without the message at position k
WithoutAt(messages, k) ==
    SubSeq(messages, 1, k - 1) \o SubSeq(messages, k + 1, Len(messages))

FirstSystem(messages) ==
    CHOOSE i \in SystemPositions(messages) : \A j \in SystemPositions(messages) : i <= j

AnthropicCalled == adapterCall.provider = "anthropic"

\* C21: the Anthropic request carries the first system-role message of the
\* request in its `system` field and all the other messages, as
\* {role, content} and in their original order, in `messages`; without a
\* system message there is no `system` field and every message is passed.
C21_FirstSystemLifted ==
    AnthropicCalled =>
        IF SystemPositions(adapterCall.messages) = {}
        THEN /\ adapterCall.payload.system = Absent
             /\ adapterCall.payload.messages = adapterCall.messages
        ELSE /\ adapterCall.payload.system =
                    <<adapterCall.messages[FirstSystem(adapterCall.messages)].content>>
             /\ adapterCall.payload.messages =
                    WithoutAt(adapterCall.messages, FirstSystem(adapterCall.messages))

\* the same for requests with at most one system message
C21_AtMostOneSystem ==
    (AnthropicCalled /\ Cardinality(SystemPositions(adapterCall.messages)) <= 1) =>
        C21_FirstSystemLifted

\* the request's messages that are not system messages, in request order
NonSystem(messages) ==
    FilterIn(messages, {m \in Range(messages) : m.role # "system"})

\* the messages of the upstream request read back as {role, content}: Gemini's
\* contents entry {role, parts: [{text}]} with role model is an assistant turn
SentMessages ==
    IF adapterCall.provider = "google"
    THEN [i \in 1..Len(adapterCall.payload.messages) |->
            Msg(IF adapterCall.payload.messages[i].role = "model" THEN "assistant"
                ELSE adapterCall.payload.messages[i].role,
                adapterCall.payload.messages[i].parts[1].text)]
    ELSE adapterCall.payload.messages

HasSystemField == adapterCall.provider \in {"anthropic", "google"}

\* C22: for every adapter the messages sent upstream are the request's
\* messages in the same relative order, none dropped and none duplicated;
\* for Anthropic and Gemini the system messages travel in the dedicated
\* field instead, and Gemini's role for an assistant turn is "model".
C22_OrderPreserved ==
    adapterCall.provider # "" =>
        IF HasSystemField
        THEN /\ SentMessages = NonSystem(adapterCall.messages)
             /\ \A i \in SystemPositions(adapterCall.messages) :
                    adapterCall.messages[i].content \in Range(adapterCall.payload.system)
        ELSE SentMessages = adapterCall.messages

\* the messages an adapter does send are a sub-sequence of the request's
RECURSIVE IsSubSeq(_, _)
IsSubSeq(a, b) ==
    IF a = <<>> THEN TRUE
    ELSE IF b = <<>> THEN FALSE
    ELSE IF Head(a) = Head(b) THEN IsSubSeq(Tail(a), Tail(b))
    ELSE IsSubSeq(a, Tail(b))

C22_SentInRequestOrder ==
    adapterCall.provider # "" => IsSubSeq(SentMessages, adapterCall.messages)

\* requests with at most one system message and only user/assistant turns
C22_PlainRequests ==
    (/\ Cardinality(SystemPositions(adapterCall.messages)) <= 1
     /\ \A i \in 1..Len(adapterCall.messages) :
            adapterCall.messages[i].role \in {"system", "user", "assistant"})
        => C22_OrderPreserved

\* ------------------------------------------------------------------- usage
Completed == adapterCall.provider # "" /\ ~adapterCall.stream

\* C23: the usage of every response an adapter returns satisfies
\* total_tokens = prompt_tokens + completion_tokens, whatever the upstream
\* reported.
C23_UsageTotalIsSum ==
    Completed =>
        adapterCall.response.usage.total_tokens =
            adapterCall.response.usage.prompt_tokens
            + adapterCall.response.usage.completion_tokens

\* the Anthropic adapter computes the total itself
C23_AnthropicTotalIsSum ==
    (Completed /\ adapterCall.provider = "anthropic") => C23_UsageTotalIsSum

\* ------------------------------------------------------------ Gemini stream
GeminiStreaming == Streaming /\ gen.provider = "google"

\* the concatenation of the texts of the parts of upstream line i
EventText(i) == JoinParts(GoogleEvent(upstream[i]).parts)

IsDelta(e) == e.type = "chunk" /\ e.finish_reason = ""

\* the delta chunk expected of upstream line i, if its text is not empty
ExpectedDelta(i) ==
    IF EventText(i) = <<>> THEN <<>>
    ELSE << [type |-> "chunk", src |-> i, content |-> TRUE, text |-> EventText(i),
             finish_reason |-> "", model |-> <<"google">> \o gen.model] >>

\* the terminal chunk (empty delta, finish_reason "stop") and data: [DONE]
ExpectedStop(i) ==
    << [type |-> "chunk", src |-> i, content |-> FALSE, text |-> <<>>,
        finish_reason |-> "stop", model |-> <<"google">> \o gen.model],
       [type |-> "done", src |-> i, content |-> FALSE, text |-> <<>>,
        finish_reason |-> "", model |-> NoModel] >>

\* C24: in a Gemini stream the texts of an event's parts are concatenated
\* into a single delta chunk, and an event with finishReason "STOP" is relayed
\* as that delta (if its text is not empty), then a terminal chunk with an
\* empty delta and finish_reason "stop", then data: [DONE], in this order.
C24_GeminiStop ==
    GeminiStreaming =>
        \A i \in 1..Len(upstream) :
            GoogleEvent(upstream[i]).candidates =>
                /\ SelectSeq(EventsFrom(i), IsDelta) = ExpectedDelta(i)
                /\ GoogleEvent(upstream[i]).finishReason = "STOP" =>
                      EventsFrom(i) = ExpectedDelta(i) \o ExpectedStop(i)

\* C24 witness: a STOP event with several text parts was relayed as its one
\* delta, the terminal chunk and [DONE], and a STOP event without text as the
\* terminal chunk and [DONE] alone
C24_Witness ==
    /\ GeminiStreaming
    /\ \E i \in 1..Len(upstream) :
          /\ upstream[i] = "text_stop"
          /\ Len(GoogleEvent(upstream[i]).parts) > 1
          /\ Len(EventsFrom(i)) = 3
          /\ EventsFrom(i)[1].text = <<"wor", "ld">>
    /\ \E i \in 1..Len(upstream) :
          /\ upstream[i] = "stop"
          /\ Len(EventsFrom(i)) = 2

\* ------------------------------------------------------ pass-through adapters
PassthroughCalled == adapterCall.provider \in {"openai", "groq", "deepseek"}

\* the alias table's entry for the requested name, the name itself without one
AliasOf(provider, name) ==
    IF Len(name) = 1 /\ name[1] \in DOMAIN MODEL_MAP[provider]
    THEN <<MODEL_MAP[provider][name[1]]>> ELSE name

\* the canonical "provider/model" form of the call's model
CanonicalModel == <<adapterCall.provider>> \o adapterCall.model

\* C25: the Groq, DeepSeek and OpenAI adapters send the message array
\* unchanged and the alias-table substitution of the requested model name
\* (the name itself when it has no alias), and write "provider/model" into the
\* model field of the response and of every relayed stream chunk; a catalog
\* id "p/m" resolves to provider p.
C25_Passthrough ==
    /\ PassthroughCalled =>
          /\ adapterCall.payload.messages = adapterCall.messages
          /\ adapterCall.payload.system = Absent
          /\ adapterCall.payload.model = AliasOf(adapterCall.provider, adapterCall.model)
          /\ ~adapterCall.stream => adapterCall.response.model = CanonicalModel
          /\ \A k \in 1..Len(adapterCall.yielded) :
                adapterCall.yielded[k].type = "chunk" =>
                    adapterCall.yielded[k].model = CanonicalModel
    /\ adapterCall.id \in CatalogIds =>
          /\ adapterCall.provider = adapterCall.id[1]
          /\ resolve_model(adapterCall.id) = <<adapterCall.id[1], Tail(adapterCall.id)>>

\* C25 witness: a Groq completion for the catalog id groq/llama-3.3-70b whose
\* upstream request names llama-3.3-70b-versatile, carries the request's
\* three messages, and whose response is labelled groq/llama-3.3-70b
C25_Witness ==
    /\ adapterCall.id = <<"groq", "llama-3.3-70b">>
    /\ ~adapterCall.stream
    /\ adapterCall.payload.model = <<"llama-3.3-70b-versatile">>
    /\ Len(adapterCall.payload.messages) = 3
    /\ adapterCall.payload.messages[1].role = "system"
    /\ adapterCall.response.model = <<"groq", "llama-3.3-70b">>

\* a relayed chunk of a DeepSeek stream for a name without alias
C25_StreamCase ==
    /\ adapterCall.id = <<"deepseek", "deepseek-coder">>
    /\ adapterCall.stream
    /\ adapterCall.payload.model = <<"deepseek-coder">>
    /\ adapterCall.yielded # <<>>
    /\ adapterCall.yielded[1].model = <<"deepseek", "deepseek-coder">>

\* ------------------------------------------------------------------ pricing
\* (in * input_rate + out * output_rate) / 1,000,000 USD with the catalog's
\* rates, in the model's units: a rate of r USD per million tokens is 100 r,
\* and the result counts 1e-8 USD
ClaimedCost(m, input_tokens, output_tokens) ==
    input_tokens * MODELS[m].input_cost + output_tokens * MODELS[m].output_cost

Estimated == priceCall.op = "estimate_cost" /\ priceCall.model_id \in CatalogIds

\* two successive estimates for one model, the second with no fewer tokens
GrowingEstimate ==
    /\ Estimated
    /\ priceCall'.op = "estimate_cost"
    /\ priceCall'.model_id = priceCall.model_id
    /\ priceCall'.input_tokens >= priceCall.input_tokens
    /\ priceCall'.output_tokens >= priceCall.output_tokens

C26_Formula ==
    Estimated =>
        priceCall.cost =
            ClaimedCost(priceCall.model_id, priceCall.input_tokens,
                        priceCall.output_tokens)

\* C26: for every catalog entry estimate_cost(id, in, out) is
\* (in * input_rate + out * output_rate) / 1,000,000, and it does not decrease
\* when in or out grows, for all non-negative token counts.
C26_EstimateCost ==
    /\ []C26_Formula
    /\ [][GrowingEstimate => priceCall'.cost >= priceCall.cost]_vars

\* C26 witness: openai/gpt-4o at 1000 input and 500 output tokens estimated at
\* 0.0075 USD
C26_Witness ==
    /\ priceCall.op = "estimate_cost"
    /\ priceCall.model_id = <<"openai", "gpt-4o">>
    /\ priceCall.input_tokens = 1000
    /\ priceCall.output_tokens = 500
    /\ priceCall.cost = 750000

Selected == priceCall.op = "select_by_budget"

SelectedCost(m) == ClaimedCost(m, priceCall.input_tokens, priceCall.output_tokens)

\* C27: select_by_budget(cap, est_input, est_output) returns exactly the
\* catalog ids whose estimated cost for those counts is at most cap, each
\* once, ordered by quality_tier ascending and then by estimated cost
\* ascending.
C27_SelectByBudget ==
    Selected =>
        /\ Range(priceCall.ids) = {m \in CatalogIds : SelectedCost(m) <= priceCall.budget}
        /\ Cardinality(Range(priceCall.ids)) = Len(priceCall.ids)
        /\ \A i, j \in 1..Len(priceCall.ids) :
              i < j =>
                  \/ MODELS[priceCall.ids[i]].quality_tier
                        < MODELS[priceCall.ids[j]].quality_tier
                  \/ /\ MODELS[priceCall.ids[i]].quality_tier
                          = MODELS[priceCall.ids[j]].quality_tier
                     /\ SelectedCost(priceCall.ids[i]) <= SelectedCost(priceCall.ids[j])

\* C27 witness: a cap of 0.001 USD at 1000/500 tokens admits five models of
\* tiers 2 and 3, returned tier by tier and cheapest first within the tier
C27_Witness ==
    /\ Selected
    /\ priceCall.budget = 100000
    /\ priceCall.input_tokens = 1000
    /\ priceCall.output_tokens = 500
    /\ priceCall.ids = << <<"google", "gemini-2.5-flash">>, <<"openai", "gpt-4o-mini">>,
                          <<"deepseek", "deepseek-v3">>, <<"groq", "llama-3.3-70b">>,
                          <<"groq", "mixtral-8x7b">> >>

\* ------------------------------------------------------------ observability
\* a non-streaming completion has been returned to the caller
Succeeded ==
    /\ pc = "done"
    /\ reply.status = 200
    /\ reply.type = "chat.completion"
    /\ dispatches # <<>>

\* the call that produced the reply, and whether it was a fallback call
Serving == LastOf(dispatches)

ServedByFallback == Succeeded /\ Serving.phase # "primary"

\* the cost of the reply's usage at the serving model's rates
CostOfReply ==
    ClaimedCost(Serving.model, reply.usage.prompt_tokens, reply.usage.completion_tokens)

CostAttached == reply.cost_usd = CostOfReply

\* the request log holds an entry for the reply
LoggedReply ==
    \E k \in 1..Len(stats.request_log) :
        /\ stats.request_log[k].provider = Serving.provider
        /\ stats.request_log[k].model = Serving.model
        /\ stats.request_log[k].total_tokens = reply.usage.total_tokens
        /\ stats.request_log[k].cost_usd = CostOfReply

\* C28: every successful non-streaming completion returned to the caller, by
\* the primary model or by a fallback model, carries the cost computed from its
\* usage at the serving model's rates, and its provider, model, tokens, cost,
\* latency and user id are recorded in the stats.
C28_SuccessCostedAndRecorded ==
    Succeeded => (CostAttached /\ LoggedReply)

\* what the endpoint does for a completion of the primary model: the cost is
\* attached and the in-memory totals take its tokens, its cost and one latency
C28_PrimaryAccumulated ==
    (Succeeded /\ ~ServedByFallback /\ stats.total_requests = 1) =>
        /\ CostAttached
        /\ stats.total_tokens = reply.usage.total_tokens
        /\ stats.total_cost_usd = CostOfReply
        /\ stats.latency_samples = 1
        /\ stats.requests_by_model[Serving.model] = 1

\* a completion of a fallback model with its cost and its tokens accounted
C28_FallbackAccumulated ==
    (ServedByFallback /\ stats.total_requests = 1) =>
        /\ CostAttached
        /\ stats.total_tokens = reply.usage.total_tokens
        /\ stats.latency_samples = 1
        /\ stats.requests_by_model[Serving.model] = 1

\* the request in progress has reached its outcome
Finished == pc = "done" /\ stats.total_requests > 0

Failed == Finished /\ (reply.status >= 400 \/ (Streaming /\ StreamFailed))

\* C29: every request outcome, success or terminal failure, is recorded
\* exactly once, and a failed outcome (authentication error, invalid model,
\* provider error after the fallback is exhausted, stream error) is recorded
\* with a tag that tells it from a success.
C29_OutcomeRecordedOnce ==
    Finished =>
        /\ Len(stats.request_log) = stats.total_requests
        /\ Failed => stats.request_log[Len(stats.request_log)].failed

\* what the endpoint keeps of a request: one count, whatever its outcome
C29_CountedOnce ==
    Finished => (stats.total_requests = 1 /\ stats.request_log = <<>>)

\* ------------------------------------------------------------- cancellation
\* the step in which the caller of the stream in progress disconnects
Disconnects == pc \in {"stream_start", "stream_open", "stream_read"} /\ pc' = "cancelled"

\* a step of the same request after its caller has disconnected
AfterDisconnect == pc = "cancelled" /\ stats'.total_requests = stats.total_requests

Cancelled == pc = "cancelled"

\* C30: when the caller disconnects mid-stream the adapter closes its upstream
\* connection and the relay unwinds: no further chunk and no error event is
\* emitted, and no retry or fallback dispatch is made for the request.
C30_DisconnectUnwinds ==
    /\ [](Cancelled =>
            /\ \A i \in 1..Len(dispatches) :
                  /\ dispatches[i].outcome = "cancelled"
                  /\ dispatches[i].phase = "stream"
            /\ Len(dispatches) <= 1
            /\ chain = <<>>
            /\ \A i \in 1..Len(sse) : sse[i].type # "stream_error")
    /\ [][Disconnects => (sse' = sse /\ Len(dispatches') = Len(dispatches))]_vars
    /\ [][AfterDisconnect => (sse' = sse /\ dispatches' = dispatches)]_vars

\* C30 witness: the caller left after two chunks had been relayed; the
\* upstream stream is closed and the client's stream ends with those chunks
C30_Witness ==
    /\ Cancelled
    /\ Len(upstream) = 2
    /\ Len(sse) = 2
    /\ sse[2].type = "chunk"
    /\ dispatches # <<>>
    /\ dispatches[1].outcome = "cancelled"

\* ----------------------------------------------------------- error kinds
\* the non-streaming request in progress has been answered
Answered == pc = "done" /\ ~Streaming /\ reply.status # 0

\* the primary upstream call was made and did not give a completion
PrimaryFailed ==
    /\ PrimaryDispatched
    /\ dispatches[1].outcome \in {"http_503", "http_400", "bad_json"}

\* C31: a non-2xx or malformed upstream response to a non-streaming dispatch
\* is reported as a provider error, never as an authentication error; the
\* authentication error is produced only when no key is resolvable for the
\* target provider.
C31_UpstreamFailureIsProviderError ==
    Answered =>
        /\ (PrimaryFailed /\ reply.status >= 400) => reply.type = "provider_error"
        /\ reply.type = "authentication_error" =>
              (dispatches = <<>> /\ ~KeyResolvable(model_id))

\* the same for upstream failures that carry an HTTP status
C31_HttpFailureIsProviderError ==
    (Answered /\ PrimaryDispatched /\ reply.status >= 400
     /\ dispatches[1].outcome \in {"http_503", "http_400"}) =>
        reply.type = "provider_error"

\* ----------------------------------------------------------- key lifetime
\* the request in progress is over
RequestOver == pc \in {"done", "cancelled"}

\* a provider key was taken from a header of the request
HeaderKeyUsed == \E i \in 1..Len(dispatches) : dispatches[i].key.source = "header"

\* the secrets held by the state that outlives a request: the adapters'
\* default keys, the request log of the stats, the application log
DefaultKeys == {ServerSecret(p) : p \in serverKeys}

RequestLogSecrets ==
    {stats.request_log[i].api_key : i \in 1..Len(stats.request_log)}

LoggedSecrets == UNION {log[i].secrets : i \in 1..Len(log)}

\* C32: a provider key taken from a request header is never written to state
\* that outlives the request: once the request is over, neither the adapters'
\* fields, nor the stats and their request log, nor any other process-wide
\* record holds it.
C32_HeaderKeyNotKept ==
    RequestOver =>
        \A k \in DefaultKeys \cup RequestLogSecrets \cup LoggedSecrets :
            k.source # "header"

\* the adapters' fields and the stats hold no header key
C32_VariablesClean ==
    RequestOver =>
        \A k \in DefaultKeys \cup RequestLogSecrets : k.source # "header"

\* a request served with a header key leaves no trace when its upstream
\* call succeeds
C32_CleanOnSuccess ==
    (RequestOver /\ \A i \in 1..Len(dispatches) : dispatches[i].outcome = "ok") =>
        C32_HeaderKeyNotKept

\* a request that is not streamed, in progress or finished
NonStreaming == req # NoReq /\ ~req.stream

\* the checks of the request's lifecycle, for the model dispatched first: its
\* provider's key is resolvable and its estimated cost is within the cap
ChecksPassed ==
    /\ KeyResolvable(dispatches[1].model)
    /\ (req.budget_cap # NoCap /\ dispatches[1].model \in CatalogIds) =>
           EstimatedCost(dispatches[1].model) <= req.budget_cap

\* no model is dispatched twice
NoRepeatedDispatch ==
    \A i, j \in 1..Len(dispatches) : dispatches[i].model = dispatches[j].model => i = j

\* the decision's fallback chain bounds the number of dispatches
WithinDispatchBound ==
    Len(dispatches) <= 1 + Len(RouteRun(difficultyRouting, fallbackChains, req.messages,
                                        req.budget_cap, "none", req.detected
                                       ).decision.fallback_chain)

\* C33: a non-streaming request is dispatched only after its key and budget
\* checks, makes at most 1 + |fallback_chain| upstream dispatches, and never
\* dispatches the same model twice.
C33_CheckedBoundedDispatch ==
    (NonStreaming /\ dispatches # <<>>) =>
        ChecksPassed /\ WithinDispatchBound /\ NoRepeatedDispatch

\* the dispatch bound and the absence of repeated dispatches alone
C33_BoundedDispatch ==
    (NonStreaming /\ dispatches # <<>>) => WithinDispatchBound /\ NoRepeatedDispatch

\* a non-streaming request that was received reaches SUCCEEDED or FAILED when
\* every upstream call returns or raises
C33_Terminates == (NonStreaming /\ pc # "done") ~> (pc = "done")

\* a request that used its whole dispatch budget
C33_FullWalk ==
    /\ NonStreaming
    /\ pc = "done"
    /\ Len(chain) >= 2
    /\ Len(dispatches) = 1 + Len(chain)

\* what the adapter's generator yielded (generate()'s own error event aside)
IsAdapterEvent(e) == e.type # "stream_error"

AdapterEvents == SelectSeq(sse, IsAdapterEvent)

\* C34: in every adapter's stream [DONE] is emitted at most once and nothing
\* is emitted after it, whatever the upstream sends after its terminal event.
C34_DoneIsLast ==
    Streaming =>
        \A i \in 1..Len(AdapterEvents) :
            AdapterEvents[i].type = "done" => i = Len(AdapterEvents)

\* the same for the adapters of the OpenAI-compatible providers, which leave
\* their read loop at [DONE]
C34_PassthroughDoneIsLast ==
    (Streaming /\ gen.provider \in {"openai", "groq", "deepseek"}) =>
        \A i \in 1..Len(sse) : sse[i].type = "done" => i = Len(sse)

\* an OpenAI-compatible stream that ended with its [DONE]
C34_PassthroughEnded ==
    /\ Streaming
    /\ gen.provider = "groq"
    /\ pc = "done"
    /\ Len(sse) = 2
    /\ sse[2].type = "done"

\* C35: for a request with budget_cap set, every model dispatched during the
\* fallback walk has an estimated cost of at most budget_cap.
C35_FallbackWithinCap ==
    (NonStreaming /\ req.budget_cap # NoCap) =>
        \A i \in 1..Len(FallbackDispatches) :
            /\ FallbackDispatches[i].model \in CatalogIds
            /\ EstimatedCost(FallbackDispatches[i].model) <= req.budget_cap

\* the primary selection of an auto-routed request honours the cap whenever
\* some model fits it
C35_PrimaryWithinCap ==
    (/\ NonStreaming /\ req.budget_cap # NoCap /\ dispatches # <<>>
     /\ req.auto_route \/ req.model = <<"auto">>
     /\ FitsCap(req.budget_cap) # {}) =>
        EstimatedCost(dispatches[1].model) <= req.budget_cap

\* the middleware handled a request to a path that is not public
AuthChecked == auth.calls > 0 /\ ~IsPublicPath(auth.request.path)

\* the credential the request presents: the bearer token, else the x-api-key
Presented ==
    IF auth.request.authorization.scheme = "Bearer"
    THEN auth.request.authorization.token
    ELSE auth.request.x_api_key

\* a JWT with a good signature, not expired, with a subject
ValidJwt(t) == t.jwt = "valid"

\* the tr- key of an active user
ActiveUserKey(t) ==
    t.tr /\ \E u \in USERS : u.api_key = t.text /\ u.is_active

\* C36: with server API keys configured, a request to a non-public path
\* reaches its handler only with a valid unexpired JWT that has a subject, an
\* active user's tr- key or a configured key; every other request is answered
\* 401 and its handler does not run. A tr- token that matches no active user
\* is answered 401 in every configuration.
C36_HandlerNeedsCredential ==
    AuthChecked =>
        /\ auth.handler_ran = (auth.status # 401)
        /\ (auth.api_keys # {} /\ auth.handler_ran) =>
              \/ ValidJwt(Presented)
              \/ ActiveUserKey(Presented)
              \/ Presented.text \in auth.api_keys
        /\ (Presented.tr /\ ~ActiveUserKey(Presented)) =>
              auth.status = 401 /\ ~auth.handler_ran

\* C36 witness: with keys configured, a configured key that has the tr- prefix
\* and belongs to no user was answered 401
C36_Witness ==
    /\ AuthChecked
    /\ auth.api_keys = {"admin-key", "tr-ops"}
    /\ Presented.text = "tr-ops"
    /\ auth.status = 401
    /\ ~auth.handler_ran

\* each accepted kind of credential reached the handler with keys configured
C36_AdminReached ==
    /\ AuthChecked
    /\ auth.api_keys # {}
    /\ auth.handler_ran
    /\ auth.user_id = "__admin__"

C36_JwtReached ==
    /\ AuthChecked
    /\ auth.api_keys # {}
    /\ auth.handler_ran
    /\ auth.user_id = "alice"
    /\ ValidJwt(Presented)

\* without configured keys a request without credential reaches the handler
C36_DevMode ==
    /\ AuthChecked
    /\ auth.api_keys = {}
    /\ Presented = NoToken
    /\ auth.handler_ran

\* how many of the entries written so far satisfy each test
WrittenFor(provider) ==
    Cardinality({i \in 1..Len(store.written) : store.written[i].provider = provider})

WrittenOf(model) ==
    Cardinality({i \in 1..Len(store.written) : store.written[i].model = model})

\* the last n elements of a sequence
LastN(seq, n) ==
    IF Len(seq) <= n THEN seq ELSE SubSeq(seq, Len(seq) - n + 1, Len(seq))

\* C37: under any interleaving of concurrent record_request calls every call
\* raises total_requests and the counters of its provider and its model by
\* exactly one, and the in-memory request log never holds more than
\* MAX_LOG_ENTRIES entries: the most recent ones in arrival order, the oldest
\* evicted first.
C37_CountersExactLogBounded ==
    /\ store.total_requests = Len(store.written)
    /\ \A p \in DOMAIN store.requests_by_provider :
          store.requests_by_provider[p] = WrittenFor(p)
    /\ \A m \in DOMAIN store.requests_by_model :
          store.requests_by_model[m] = WrittenOf(m)
    /\ Len(store.request_log) <= MaxLogEntries
    /\ store.request_log = LastN(store.written, MaxLogEntries)

\* C37 witness: two calls were in progress at once, one in the critical
\* section and one waiting for the lock, and the log, already full, had
\* evicted entries
C37_Witness ==
    /\ store.thread[1].pc = "entry"
    /\ store.thread[2].pc = "stored"
    /\ Len(store.written) > MaxLogEntries
    /\ Len(store.request_log) = MaxLogEntries
    /\ store.total_requests = MaxLogEntries + 2

\* the log is in the order of entering the critical section, which need not
\* be the order of the entries' ts
C37_LogOutOfTsOrder ==
    /\ Len(store.request_log) = 2
    /\ store.request_log[1].ts > store.request_log[2].ts

\* the admitted calls of key k whose timestamps lie in the 60 seconds from w
AdmittedIn(k, w) ==
    {i \in 1..Len(limiter.admitted[k]) :
        limiter.admitted[k][i] >= w /\ limiter.admitted[k][i] < w + WindowSeconds}

\* C38: for each key, under any interleaving of concurrent check_rpm calls,
\* the admitted calls whose timestamps lie within any 60-second window never
\* number more than rpm.
C38_WindowNeverExceedsRpm ==
    \A k \in DOMAIN limiter.admitted :
        \A i \in 1..Len(limiter.admitted[k]) :
            Cardinality(AdmittedIn(k, limiter.admitted[k][i])) <= MaxRpm

\* the same when every call takes the lock in the order of its timestamp
InTimestampOrder ==
    \A k \in DOMAIN limiter.admitted :
        \A i, j \in 1..Len(limiter.admitted[k]) :
            i < j => limiter.admitted[k][i] <= limiter.admitted[k][j]

C38_OrderedWindowNeverExceedsRpm ==
    (/\ InTimestampOrder
     /\ \A k \in DOMAIN limiter.request_windows :
           \A i \in 1..Len(limiter.request_windows[k]) :
              \A t \in DOMAIN limiter.thread :
                 (limiter.thread[t].pc # "idle" /\ limiter.thread[t].key_hash = k) =>
                     limiter.request_windows[k][i] <= limiter.thread[t].now) =>
        C38_WindowNeverExceedsRpm

\* b is what is left of a after elements were removed from its front
IsSuffix(b, a) == Len(b) <= Len(a) /\ b = SubSeq(a, Len(a) - Len(b) + 1, Len(a))

\* a call that is refused adds nothing to its key's window, and no call
\* touches the window of another key
C38_RefusedAddsNothing ==
    [][\A t \in DOMAIN limiter.thread :
          (limiter.thread[t].pc = "locked" /\ limiter'.thread[t].pc = "idle") =>
              /\ ~limiter'.thread[t].allowed =>
                    IsSuffix(limiter'.request_windows[limiter.thread[t].key_hash],
                             limiter.request_windows[limiter.thread[t].key_hash])
              /\ \A k \in DOMAIN limiter.request_windows :
                    k # limiter.thread[t].key_hash =>
                        /\ limiter'.request_windows[k] = limiter.request_windows[k]
                        /\ limiter'.admitted[k] = limiter.admitted[k]]_vars

\* the violation with a short delay: calls admitted at 0 and 1, a call that
\* read its clock at 59 and entered the lock after a call of second 62
C38_ShortDelay ==
    /\ limiter.admitted["k1"] = <<0, 1, 62, 59>>
    /\ limiter.request_windows["k1"] = <<62, 59>>

\* C39: after any sequence of set() and compact() calls, replaying the disk
\* file, later lines overriding earlier ones, gives exactly the in-memory map,
\* so that a new CacheManager on the directory returns the latest value set
\* for every key.
C39_DiskReplaysMemory ==
    ~cache.cleared => Replay(cache.lines) = cache.memory_cache

\* the same for caches whose latest values are all strings
C39_StringsReplay ==
    (/\ ~cache.cleared
     /\ \A k \in DOMAIN cache.memory_cache : cache.memory_cache[k].type = "str") =>
        Replay(cache.lines) = cache.memory_cache

\* compact() leaves one line per distinct key and every key's latest value
C39_CompactKeepsLatest ==
    [][(cache'.compacted /\ ~cache.compacted) =>
          /\ Replay(cache'.lines) = Replay(cache.lines)
          /\ Len(cache'.lines) = Cardinality(DOMAIN Replay(cache.lines))]_vars

\* clear_cache(memory=True, disk=False) empties memory and leaves the file
C39_ClearMemoryKeepsDisk ==
    [][(/\ cache'.calls = cache.calls + 1
        /\ cache'.cleared
        /\ cache'.exists = cache.exists
        /\ cache.memory_cache # <<>>
        /\ cache'.memory_cache = <<>>) =>
          cache'.lines = cache.lines]_vars

\* a compaction that removed lines
C39_Compacted ==
    /\ cache.compacted
    /\ ~cache.cleared
    /\ Len(cache.lines) = 2
    /\ cache.calls = 4

\* no thread is inside a call
CacheQuiet == \A t \in DOMAIN cache.thread : cache.thread[t].pc = "idle"

\* thread t read the (namespace, key) it was the last to set
ReadOwnWrite(t) ==
    /\ cache.thread[t].pc = "idle"
    /\ cache.thread[t].pair # <<>>
    /\ cache.written[cache.thread[t].pair] # <<>>
    /\ cache.written[cache.thread[t].pair][1].by = t

\* C40: under concurrent set/get on a shared CacheManager every thread's get
\* returns the value it last set for that (namespace, key), the memory size is
\* the number of distinct keys written, and hits and misses count exactly the
\* get calls that found and did not find their key.
C40_OwnValuesExactStats ==
    ~cache.cleared =>
        /\ \A t \in DOMAIN cache.thread :
              ReadOwnWrite(t) =>
                  cache.thread[t].got = <<cache.written[cache.thread[t].pair][1].value>>
        /\ Cardinality(DOMAIN cache.memory_cache) =
              Cardinality({p \in CachePairs : cache.written[p] # <<>>})
        /\ CacheQuiet =>
              /\ cache.hits = cache.found
              /\ cache.misses = cache.missed

\* the hits, counted under the lock, are exact
C40_HitsExact == ~cache.cleared => cache.hits = cache.found

\* the misses are not: two concurrent misses were counted as one
C40_LostMiss ==
    /\ ~cache.cleared
    /\ CacheQuiet
    /\ cache.missed = 2
    /\ cache.misses = 1

\* while the (namespace, key) pairs in use have different texts
\* "namespace:key", reads return the caller's value and the size is exact
C40_DistinctTextsSafe ==
    (~cache.cleared /\ cache.written[<< <<"a", "b">>, <<"c">> >>] = <<>>) =>
        /\ \A t \in DOMAIN cache.thread :
              ReadOwnWrite(t) =>
                  cache.thread[t].got = <<cache.written[cache.thread[t].pair][1].value>>
        /\ Cardinality(DOMAIN cache.memory_cache) =
              Cardinality({p \in CachePairs : cache.written[p] # <<>>})

====
